---- MODULE Spec2Model ----
(***************************************************************************)
(* A model of the resilience toolkit of HybridRAG:                         *)
(*   utils/retry.py    retry_with_backoff (the wrapper) and CircuitBreaker *)
(*   utils/cache.py    InMemoryCache, get_cache and cached                 *)
(*   utils/metrics.py  MetricsCollector, track_time, track_node_execution  *)
(* Each component has its own variables and its own specification          *)
(* (SpecRetry, SpecBreakerSeq, SpecBreaker, SpecNested, SpecCache,         *)
(* SpecWrapSeq, SpecWrap, SpecMetrics, SpecTrack); a specification leaves  *)
(* the variables of the components it does not run unchanged.              *)
(***************************************************************************)
EXTENDS Integers, Sequences, FiniteSets, TLC

\* ------------------------------------------------------------------ bounds
\* Largest max_retries a wrapper is configured with.
MaxRetries == 3
\* Largest initial_delay (in clock units) a wrapper is configured with.
MaxInitialDelay == 2
\* Largest backoff_factor a wrapper is configured with.
MaxBackoff == 2
\* The clock runs from 0 to MaxTime.
MaxTime == 3
\* Largest failure_threshold and timeout a breaker is constructed with.
MaxThreshold == 2
MaxTimeout == 2
\* The operation stops failing once failure_count, with the increments under
\* way, can reach MaxFailures.
MaxFailures == 3
\* Largest ttl a cache or a set call is given.
MaxTtl == 2
\* Invocations of the function wrapped by cached.
MaxInvocations == 2
\* Calls made to one MetricsCollector, and the largest duration recorded.
MaxOps == 3
MaxDuration == 2

None == "None"

\* --------------------------------------------------------------- variables
VARIABLES
    \* retry_with_backoff: the decorator's arguments
    max_retries, initial_delay, backoff_factor, exceptions, on_retry,
    \* retry_with_backoff.wrapper: its locals and its position
    r_pc, attempt, delay, last_exception, r_result,
    \* the wrapper's effects on its environment: the invocations of func with
    \* their outcomes, the on_retry calls and the time.sleep calls, in order
    hist, on_retry_log, sleeps,
    \* the clock read by time.time()
    now,
    \* CircuitBreaker: the constructor's arguments and the instance's fields
    failure_threshold, timeout, expected_exception,
    state, failure_count, last_failure_time,
    \* CircuitBreaker.call / reset as run by each thread: its position, the
    \* value `self.failure_count += 1` has loaded, and a record of the call
    cb_pc, cb_tmp, cb_call,
    \* the last failed HALF_OPEN trial: when its operation raised, and whether
    \* reset() was called since
    cb_trial,
    \* whether cb_call and cb_trial keep the times and the fields' earlier values
    \* (kept where calls do not overlap; a call's outcome is always kept)
    cb_observed,
    \* InMemoryCache: the default ttl, the entries by key, the last operation
    \* with what it returned, and the value last passed to set for each key
    c_ttl, c_cache, c_last, c_lastset,
    \* cached: the decorator's arguments
    enabled, w_ttl,
    \* the module's `_cache` (0 while it is None, else the instance it names)
    \* and the entries of each InMemoryCache that get_cache has made
    g_cache, insts,
    \* cached.wrapper as run by each thread: its position, its arguments, its
    \* locals cache, cache_key and cached_value / result, and how the call ended
    w_pc, w_args, w_cache, w_key, w_val, w_res,
    \* the invocations of the wrapped function, in order, and what each call
    \* found: the invocations before it, and the entry of its key with the
    \* time when it called get (kept where calls do not overlap)
    w_hist, w_pre, w_observed,
    \* MetricsCollector: `_metrics`, `_start_time`, the thread holding `_lock`
    m_metrics, m_start_time, m_lock,
    \* each thread's position in a method of the collector and that call's
    \* arguments, and the dictionary get_metrics last returned to it
    m_pc, m_op, m_snap,
    \* the calls made to the collector, in order
    m_log,
    \* metrics.py's module-level `_metrics`: whether it names a collector yet
    g_metrics,
    \* the wrappers made by track_time and track_node_execution as run by each
    \* thread: its position, and the decorator's argument with the wrapper's
    \* locals
    tk_pc, tk_call,
    \* one InMemoryCache shared by threads: the thread holding `_lock`, each
    \* thread's position in a method with that call's arguments, locals and
    \* return value, and the number of calls made
    k_lock, k_pc, k_op, k_n

retryVars == <<max_retries, initial_delay, backoff_factor, exceptions, on_retry,
               r_pc, attempt, delay, last_exception, r_result,
               hist, on_retry_log, sleeps>>

cbVars == <<failure_threshold, timeout, expected_exception,
            state, failure_count, last_failure_time, cb_pc, cb_tmp, cb_call, cb_trial,
            cb_observed>>

cacheVars == <<c_ttl, c_cache, c_last, c_lastset>>

wrapVars == <<enabled, w_ttl, g_cache, insts, w_pc, w_args, w_cache, w_key, w_val,
              w_res, w_hist, w_pre, w_observed>>

metricsVars == <<m_metrics, m_start_time, m_lock, m_pc, m_op, m_snap, m_log>>

trackVars == <<g_metrics, tk_pc, tk_call>>

lockVars == <<k_lock, k_pc, k_op, k_n>>

vars == <<retryVars, now, cbVars, cacheVars, wrapVars, metricsVars, trackVars,
          lockVars>>

\* What the steps of one component leave alone.
notRetry == <<now, cbVars, cacheVars, wrapVars, metricsVars, trackVars, lockVars>>
notBreaker == <<retryVars, cacheVars, wrapVars, metricsVars, trackVars, lockVars>>
notCache == <<retryVars, cbVars, wrapVars, metricsVars, trackVars, lockVars>>
notWrap == <<retryVars, cbVars, cacheVars, metricsVars, trackVars, lockVars>>
notMetrics == <<retryVars, cbVars, cacheVars, wrapVars, trackVars, lockVars>>
notTrack == <<retryVars, cbVars, cacheVars, wrapVars, lockVars>>
notLocked == <<retryVars, cbVars, wrapVars, metricsVars, trackVars>>

\* ------------------------------------------------------- exception classes
\* The classes of exceptions.py and the built-in classes the tests raise,
\* each with the classes it derives from (itself included).
Ancestors(cls) ==
    CASE cls = "BaseException"       -> {"BaseException"}
      [] cls = "KeyboardInterrupt"   -> {"KeyboardInterrupt", "BaseException"}
      [] cls = "Exception"           -> {"Exception", "BaseException"}
      [] cls = "ValueError"          -> {"ValueError", "Exception", "BaseException"}
      [] cls = "TypeError"           -> {"TypeError", "Exception", "BaseException"}
      [] cls = "AdvancedRAGException" ->
             {"AdvancedRAGException", "Exception", "BaseException"}
      [] cls = "ValidationError"     ->
             {"ValidationError", "AdvancedRAGException", "Exception", "BaseException"}
      [] cls = "RetryExhaustedError" ->
             {"RetryExhaustedError", "AdvancedRAGException", "Exception", "BaseException"}

\* `except classes as e`: e is an instance of one of the classes.
Catches(classes, cls) == Ancestors(cls) \cap classes /= {}

\* The classes the wrapped operation raises in this model.
RaisedClasses == {"ValueError", "TypeError", "ValidationError", "KeyboardInterrupt"}

\* What one invocation of func does: it returns a value or raises an exception.
\* id tells the outcomes of one call apart: the returned value, resp. str(e).
Outcome(kind, cls, id) == [kind |-> kind, cls |-> cls, id |-> id]
NoException == Outcome("none", None, 0)
IsFailure(o) == o.kind = "raise"
FuncOutcomes(id) ==
    {Outcome("ok", None, id)} \cup {Outcome("raise", c, id) : c \in RaisedClasses}

\* How a call of the wrapper ends.
Result(kind, cls, id, attempts) ==
    [kind |-> kind, cls |-> cls, id |-> id, attempts |-> attempts]
NoResult == Result("none", None, 0, 0)

\* func.__name__ of the wrapped function.
FuncName == "f"

\* ------------------------------------------------------ retry_with_backoff
\* The `exceptions` arguments tried: the default and the one of test_retry.py.
ExceptionsArgs == {{"Exception"}, {"ValueError"}}

\* The wrapper is not yet called.
RetryNotCalled ==
    /\ r_pc = "idle"
    /\ attempt = 0
    /\ delay = 0
    /\ last_exception = NoException
    /\ r_result = NoResult
    /\ hist = <<>>
    /\ on_retry_log = <<>>
    /\ sleeps = <<>>

\* The decorator is applied with some arguments.
RetryInit ==
    /\ max_retries \in -1 .. MaxRetries
    /\ initial_delay \in 1 .. MaxInitialDelay
    /\ backoff_factor \in 1 .. MaxBackoff
    /\ exceptions \in ExceptionsArgs
    /\ on_retry \in BOOLEAN
    /\ RetryNotCalled

\* A wrapper with the default arguments (lines 15-19) that nothing calls.
RetryIdle ==
    /\ max_retries = 3
    /\ initial_delay = 1
    /\ backoff_factor = 2
    /\ exceptions = {"Exception"}
    /\ on_retry = FALSE
    /\ RetryNotCalled

\* Mutant: range(max_retries).
InRange_short(a) == 0 <= a /\ a < max_retries

\* range(max_retries + 1) holds attempt a.
InRange(a) == 0 <= a /\ a < max_retries + 1

\* Mutant: the budget ends one attempt early.
IsLastAttempt_early(a) == a + 1 >= max_retries

\* `if attempt == max_retries`
IsLastAttempt(a) == a = max_retries

\* Mutant: the except clause matches nothing.
IsRetryable_none(e) == FALSE

\* Mutant: a bare `except`.
IsRetryable_all(e) == Catches({"BaseException"}, e.cls)

\* `except exceptions as e`
IsRetryable(e) == Catches(exceptions, e.cls)

\* wrapper(*args, **kwargs) is called: lines 40-41 and the loop's entry.
RetryCall ==
    /\ r_pc = "idle"
    /\ delay' = initial_delay
    /\ last_exception' = NoException
    /\ attempt' = 0
    /\ r_pc' = IF InRange(0) THEN "loop" ELSE "after_loop"
    /\ UNCHANGED <<max_retries, initial_delay, backoff_factor, exceptions, on_retry,
                   r_result, hist, on_retry_log, sleeps, notRetry>>

\* A RetryExhaustedError with its details: the function's name, the number of
\* attempts, and the str() of an error, which its message repeats.
Exhausted(function, attempts, last_error) ==
    [kind |-> "raise", cls |-> "RetryExhaustedError", id |-> last_error,
     attempts |-> attempts, function |-> function]

\* Mutant: the error reported is the one kept from the attempt before.
ExhaustedError_stale(e) == Exhausted(FuncName, max_retries + 1, last_exception.id)

\* Lines 72-79: the error raised at the last attempt, which raised e.
ExhaustedError(e) == Exhausted(FuncName, max_retries + 1, e.id)

\* Mutant: the delay grows by addition.
NextDelay_add(d) == d + backoff_factor

\* Line 100: `delay *= backoff_factor`.
NextDelay(d) == d * backoff_factor

\* Mutant: the callback is given the 1-based number of the attempt.
OnRetryCall_oneBased(a, e) ==
    [attempt |-> a + 1, error |-> e, slept |-> Len(sleeps), invoked |-> Len(hist) + 1]

\* Line 96, `on_retry(attempt, e)`, in the iteration that has just invoked
\* func: the callback's arguments, and what has happened when it is called,
\* the number of sleeps and of invocations so far.
OnRetryCall(a, e) ==
    [attempt |-> a, error |-> e, slept |-> Len(sleeps), invoked |-> Len(hist) + 1]

\* One iteration of the loop (lines 43-100): func is invoked and does `out`.
RetryAttempt(out) ==
    /\ r_pc = "loop"
    /\ hist' = Append(hist, out)
    /\ IF out.kind = "ok"
       THEN \* return result
            /\ r_result' = Result("return", None, out.id, 0)
            /\ r_pc' = "done"
            /\ UNCHANGED <<attempt, delay, last_exception, on_retry_log, sleeps>>
       ELSE IF IsRetryable(out)
       THEN /\ last_exception' = out
            /\ IF IsLastAttempt(attempt)
               THEN \* raise RetryExhaustedError(...) from e
                    /\ r_result' = ExhaustedError(out)
                    /\ r_pc' = "done"
                    /\ UNCHANGED <<attempt, delay, on_retry_log, sleeps>>
               ELSE \* on_retry(attempt, e); time.sleep(delay); delay *= backoff_factor
                    /\ on_retry_log' = IF on_retry
                                       THEN Append(on_retry_log, OnRetryCall(attempt, out))
                                       ELSE on_retry_log
                    /\ sleeps' = Append(sleeps, delay)
                    /\ delay' = NextDelay(delay)
                    /\ attempt' = attempt + 1
                    /\ r_pc' = IF InRange(attempt + 1) THEN "loop" ELSE "after_loop"
                    /\ UNCHANGED r_result
       ELSE \* no except clause matches: the exception leaves the wrapper
            /\ r_result' = Result("raise", out.cls, out.id, 0)
            /\ r_pc' = "done"
            /\ UNCHANGED <<attempt, delay, last_exception, on_retry_log, sleeps>>
    /\ UNCHANGED <<max_retries, initial_delay, backoff_factor, exceptions, on_retry,
                   notRetry>>

\* The loop ended without a return or a raise (lines 102-106).
RetryAfterLoop ==
    /\ r_pc = "after_loop"
    /\ r_result' = Exhausted(FuncName, 0, last_exception.id)
    /\ r_pc' = "done"
    /\ UNCHANGED <<max_retries, initial_delay, backoff_factor, exceptions, on_retry,
                   attempt, delay, last_exception, hist, on_retry_log, sleeps,
                   notRetry>>

RetryNext ==
    \/ RetryCall
    \/ \E out \in FuncOutcomes(Len(hist) + 1) : RetryAttempt(out)
    \/ RetryAfterLoop

\* ------------------------------------------------------------------- clock
ClockInit == now = 0

\* Time passes.
Tick ==
    /\ now < MaxTime
    /\ now' = now + 1
    /\ UNCHANGED <<retryVars, cbVars, cacheVars, wrapVars, metricsVars, trackVars,
                   lockVars>>

\* ---------------------------------------------------------- CircuitBreaker
\* `self.last_failure_time = None`, and a time no call has read.
NoTime == -1
\* str(e) of Exception("Circuit breaker is OPEN").
CircuitOpenMsg == -2

Threads == {"t1", "t2"}

\* The `expected_exception` arguments tried: the default and a narrower class.
ExpectedArgs == {"Exception", "ValueError"}
\* The classes the guarded operation raises in this model.
CbRaisedClasses == {"ValueError", "KeyboardInterrupt"}
CbOutcomes ==
    {Outcome("ok", None, 1)} \cup {Outcome("raise", c, 1) : c \in CbRaisedClasses}

\* What is recorded of one call: the fields when it began, the time of its
\* gate (line 168, then line 170 when that runs), the state in which func was
\* invoked (None: func not invoked), when func raised, what func did and how
\* the call ended.
NoCall == [pre_state |-> None, pre_count |-> 0, pre_lft |-> NoTime,
           t_gate |-> NoTime, inv_state |-> None, t_raise |-> NoTime,
           out |-> NoException, res |-> NoResult]
NoTrial == [at |-> NoTime, reset |-> FALSE]

\* CircuitBreaker.__init__ (lines 136-142), no thread inside the breaker.
CbFieldsInit ==
    /\ state = "CLOSED"
    /\ failure_count = 0
    /\ last_failure_time = NoTime
    /\ cb_pc = [t \in Threads |-> "idle"]
    /\ cb_tmp = [t \in Threads |-> 0]
    /\ cb_call = [t \in Threads |-> NoCall]
    /\ cb_trial = NoTrial

\* A breaker constructed with some arguments.
CbInit ==
    /\ failure_threshold \in 1 .. MaxThreshold
    /\ timeout \in 1 .. MaxTimeout
    /\ expected_exception \in ExpectedArgs
    /\ CbFieldsInit

\* A breaker with the default arguments (lines 124-126) that nothing calls.
CbIdle ==
    /\ failure_threshold = 5
    /\ timeout = 60
    /\ expected_exception = "Exception"
    /\ cb_observed = FALSE
    /\ CbFieldsInit

CbConfig == <<failure_threshold, timeout, expected_exception, cb_observed>>

\* x where the times and earlier values are kept, else the placeholder.
Obs(x, placeholder) == IF cb_observed THEN x ELSE placeholder

\* Thread t moves to position p.
Goto(t, p) == cb_pc' = [cb_pc EXCEPT ![t] = p]
\* Thread t's call ends with `res`.
Finish(t, res) ==
    /\ Goto(t, "done")
    /\ cb_call' = [cb_call EXCEPT ![t].res = res]
RaiseOf(out) == Result("raise", out.cls, out.id, 0)

\* Mutant: the comparison is strict.
TimeoutElapsed_strict == now - last_failure_time > timeout

\* Mutant: the time is not measured from the last failure.
TimeoutElapsed_absolute == now >= timeout

\* `time.time() - self.last_failure_time >= self.timeout`
TimeoutElapsed == now - last_failure_time >= timeout

\* `except self.expected_exception as e`
IsExpected(out) == Catches({expected_exception}, out.cls)

\* Mutant: the circuit opens only past the threshold.
ThresholdReached_late == failure_count > failure_threshold

\* `if self.failure_count >= self.failure_threshold`
ThresholdReached == failure_count >= failure_threshold

\* Thread t calls breaker.call(func).
CbCall(t) ==
    /\ cb_pc[t] = "idle"
    /\ Goto(t, "L168")
    /\ cb_call' = [cb_call EXCEPT ![t] =
           [NoCall EXCEPT !.pre_state = Obs(state, None),
                          !.pre_count = Obs(failure_count, 0),
                          !.pre_lft = Obs(last_failure_time, NoTime)]]
    /\ UNCHANGED <<CbConfig, state, failure_count, last_failure_time, cb_tmp,
                   cb_trial, now, notBreaker>>

\* Line 168: `if self.state == "OPEN"`.
CbCheckOpen(t) ==
    /\ cb_pc[t] = "L168"
    /\ Goto(t, IF state = "OPEN" THEN "L170" ELSE "L181")
    /\ cb_call' = [cb_call EXCEPT ![t].t_gate = Obs(now, NoTime)]
    /\ UNCHANGED <<CbConfig, state, failure_count, last_failure_time, cb_tmp,
                   cb_trial, now, notBreaker>>

\* Mutant: a rejected request counts as a failure just seen, so the timeout
\* starts again with every rejection.
CbCheckTimeout_refresh(t) ==
    /\ cb_pc[t] = "L170"
    /\ last_failure_time /= NoTime
    /\ IF TimeoutElapsed
       THEN /\ Goto(t, "L172")
            /\ cb_call' = [cb_call EXCEPT ![t].t_gate = Obs(now, NoTime)]
            /\ UNCHANGED last_failure_time
       ELSE /\ Goto(t, "done")
            /\ cb_call' = [cb_call EXCEPT ![t].t_gate = Obs(now, NoTime),
                   ![t].res = Result("raise", "Exception", CircuitOpenMsg, 0)]
            /\ last_failure_time' = now
    /\ UNCHANGED <<CbConfig, state, failure_count, cb_tmp, cb_trial, now, notBreaker>>

\* Lines 170-178: the timeout has passed, or the request is rejected. (The
\* subtraction raises TypeError while last_failure_time is None.)
CbCheckTimeout(t) ==
    /\ cb_pc[t] = "L170"
    /\ IF last_failure_time = NoTime
       THEN /\ Goto(t, "done")
            /\ cb_call' = [cb_call EXCEPT ![t].t_gate = Obs(now, NoTime),
                   ![t].res = Result("raise", "TypeError", 0, 0)]
       ELSE IF TimeoutElapsed
       THEN /\ Goto(t, "L172")
            /\ cb_call' = [cb_call EXCEPT ![t].t_gate = Obs(now, NoTime)]
       ELSE /\ Goto(t, "done")
            /\ cb_call' = [cb_call EXCEPT ![t].t_gate = Obs(now, NoTime),
                   ![t].res = Result("raise", "Exception", CircuitOpenMsg, 0)]
    /\ UNCHANGED <<CbConfig, state, failure_count, last_failure_time, cb_tmp,
                   cb_trial, now, notBreaker>>

\* Line 172: `self.state = "HALF_OPEN"`.
CbSetHalfOpen(t) ==
    /\ cb_pc[t] = "L172"
    /\ state' = "HALF_OPEN"
    /\ Goto(t, "L181")
    /\ UNCHANGED <<CbConfig, failure_count, last_failure_time, cb_tmp, cb_call,
                   cb_trial, now, notBreaker>>

\* Line 181: func(*args, **kwargs) is invoked and starts running.
CbInvoke(t) ==
    /\ cb_pc[t] = "L181"
    /\ Goto(t, "func")
    /\ cb_call' = [cb_call EXCEPT ![t].inv_state = state]
    /\ UNCHANGED <<CbConfig, state, failure_count, last_failure_time, cb_tmp,
                   cb_trial, now, notBreaker>>

\* The largest value failure_count can take once every `+= 1` under way has
\* stored its sum.
SetMax(S) == CHOOSE x \in S : \A y \in S : y <= x
PendingFailures ==
    SetMax({failure_count} \cup {cb_tmp[u] + 1 : u \in {v \in Threads : cb_pc[v] = "L192s"}})
    + Cardinality({u \in Threads : cb_pc[u] = "L192"})

\* func returns or raises: on to line 184, to the except clause of line 191,
\* or out of call with an exception the clause does not match.
CbFuncEnds(t, out) ==
    /\ cb_pc[t] = "func"
    /\ IsFailure(out) => PendingFailures < MaxFailures
    /\ IF out.kind = "ok"
       THEN /\ Goto(t, "L184")
            /\ cb_call' = [cb_call EXCEPT ![t].out = out]
       ELSE IF IsExpected(out)
       THEN /\ Goto(t, "L192")
            /\ cb_call' = [cb_call EXCEPT ![t].out = out,
                                          ![t].t_raise = Obs(now, NoTime)]
       ELSE /\ Goto(t, "done")
            /\ cb_call' = [cb_call EXCEPT ![t].out = out,
                                          ![t].t_raise = Obs(now, NoTime),
                                          ![t].res = RaiseOf(out)]
    /\ UNCHANGED <<CbConfig, state, failure_count, last_failure_time, cb_tmp,
                   cb_trial, now, notBreaker>>

\* Mutant: every success resets the breaker, whatever its state.
CbOkCheck_anyState(t) ==
    /\ cb_pc[t] = "L184"
    /\ Goto(t, "L186") /\ UNCHANGED cb_call
    /\ UNCHANGED <<CbConfig, state, failure_count, last_failure_time, cb_tmp,
                   cb_trial, now, notBreaker>>

\* Line 184: `if self.state == "HALF_OPEN"`, else line 189: return result.
CbOkCheck(t) ==
    /\ cb_pc[t] = "L184"
    /\ IF state = "HALF_OPEN"
       THEN Goto(t, "L186") /\ UNCHANGED cb_call
       ELSE Finish(t, Result("return", None, cb_call[t].out.id, 0))
    /\ UNCHANGED <<CbConfig, state, failure_count, last_failure_time, cb_tmp,
                   cb_trial, now, notBreaker>>

\* Line 186: `self.failure_count = 0`.
CbOkResetCount(t) ==
    /\ cb_pc[t] = "L186"
    /\ failure_count' = 0
    /\ Goto(t, "L187")
    /\ UNCHANGED <<CbConfig, state, last_failure_time, cb_tmp, cb_call, cb_trial,
                   now, notBreaker>>

\* Lines 187-189: `self.state = "CLOSED"`; return result.
CbOkClose(t) ==
    /\ cb_pc[t] = "L187"
    /\ state' = "CLOSED"
    /\ Finish(t, Result("return", None, cb_call[t].out.id, 0))
    /\ UNCHANGED <<CbConfig, failure_count, last_failure_time, cb_tmp, cb_trial, now,
                   notBreaker>>

\* Line 192, `self.failure_count += 1`: the field is loaded ...
CbFailLoad(t) ==
    /\ cb_pc[t] = "L192"
    /\ cb_tmp' = [cb_tmp EXCEPT ![t] = failure_count]
    /\ Goto(t, "L192s")
    /\ UNCHANGED <<CbConfig, state, failure_count, last_failure_time, cb_call,
                   cb_trial, now, notBreaker>>

\* Mutant: the failure is counted once for each attempt the operation made.
CbFailStore_perAttempt(t) ==
    /\ cb_pc[t] = "L192s"
    /\ failure_count' = cb_tmp[t] + Len(hist)
    /\ cb_tmp' = [cb_tmp EXCEPT ![t] = 0]
    /\ Goto(t, "L193")
    /\ UNCHANGED <<CbConfig, state, last_failure_time, cb_call, cb_trial, now,
                   notBreaker>>

\* ... and the sum is stored.
CbFailStore(t) ==
    /\ cb_pc[t] = "L192s"
    /\ failure_count' = cb_tmp[t] + 1
    /\ cb_tmp' = [cb_tmp EXCEPT ![t] = 0]
    /\ Goto(t, "L193")
    /\ UNCHANGED <<CbConfig, state, last_failure_time, cb_call, cb_trial, now,
                   notBreaker>>

\* Mutant: only the first failure stores its time.
CbFailTime_first(t) ==
    /\ cb_pc[t] = "L193"
    /\ last_failure_time' = IF last_failure_time = NoTime THEN now
                                                         ELSE last_failure_time
    /\ Goto(t, "L205")
    /\ UNCHANGED <<CbConfig, state, failure_count, cb_tmp, cb_call, cb_trial, now,
                   notBreaker>>

\* Line 193: `self.last_failure_time = time.time()`.
CbFailTime(t) ==
    /\ cb_pc[t] = "L193"
    /\ last_failure_time' = now
    /\ Goto(t, "L205")
    /\ UNCHANGED <<CbConfig, state, failure_count, cb_tmp, cb_call, cb_trial, now,
                   notBreaker>>

\* The failed call was a trial (func was invoked with the breaker HALF_OPEN):
\* it is the last failed trial from now on.
FailedTrial(t) ==
    IF cb_observed /\ cb_call[t].inv_state = "HALF_OPEN"
    THEN [at |-> cb_call[t].t_raise, reset |-> FALSE]
    ELSE cb_trial

\* Line 205: `if self.failure_count >= self.failure_threshold`, else line 215.
CbFailCheck(t) ==
    /\ cb_pc[t] = "L205"
    /\ IF ThresholdReached
       THEN Goto(t, "L206") /\ UNCHANGED <<cb_call, cb_trial>>
       ELSE Finish(t, RaiseOf(cb_call[t].out)) /\ cb_trial' = FailedTrial(t)
    /\ UNCHANGED <<CbConfig, state, failure_count, last_failure_time, cb_tmp, now,
                   notBreaker>>

\* Lines 206-215: `self.state = "OPEN"`; raise.
CbFailOpen(t) ==
    /\ cb_pc[t] = "L206"
    /\ state' = "OPEN"
    /\ Finish(t, RaiseOf(cb_call[t].out))
    /\ cb_trial' = FailedTrial(t)
    /\ UNCHANGED <<CbConfig, failure_count, last_failure_time, cb_tmp, now,
                   notBreaker>>

\* The caller has the call's result or exception.
CbReturn(t) ==
    /\ cb_pc[t] = "done"
    /\ Goto(t, "idle")
    /\ cb_call' = [cb_call EXCEPT ![t] = NoCall]
    /\ UNCHANGED <<CbConfig, state, failure_count, last_failure_time, cb_tmp,
                   cb_trial, now, notBreaker>>

\* Thread t calls breaker.reset(); line 219: `self.failure_count = 0`.
CbResetCount(t) ==
    /\ cb_pc[t] = "idle"
    /\ failure_count' = 0
    /\ Goto(t, "L220")
    /\ UNCHANGED <<CbConfig, state, last_failure_time, cb_tmp, cb_call, cb_trial,
                   now, notBreaker>>

\* Line 220: `self.state = "CLOSED"`.
CbResetState(t) ==
    /\ cb_pc[t] = "L220"
    /\ state' = "CLOSED"
    /\ Goto(t, "idle")
    /\ cb_trial' = IF cb_trial = NoTrial THEN NoTrial
                   ELSE [cb_trial EXCEPT !.reset = TRUE]
    /\ UNCHANGED <<CbConfig, failure_count, last_failure_time, cb_tmp, cb_call, now,
                   notBreaker>>

\* The steps inside a call or a reset: the breaker's own statements, and the
\* operation doing one of the things it can do.
CbInner(t) ==
    \/ CbCheckOpen(t)
    \/ CbCheckTimeout(t)
    \/ CbSetHalfOpen(t)
    \/ CbInvoke(t)
    \/ CbOkCheck(t)
    \/ CbOkResetCount(t)
    \/ CbOkClose(t)
    \/ CbFailLoad(t)
    \/ CbFailStore(t)
    \/ CbFailTime(t)
    \/ CbFailCheck(t)
    \/ CbFailOpen(t)
    \/ CbReturn(t)
    \/ CbResetState(t)
CbStep(t) ==
    \/ CbInner(t)
    \/ \E out \in CbOutcomes : CbFuncEnds(t, out)

NoOtherActive(t) == \A u \in Threads \ {t} : cb_pc[u] = "idle"

\* Any interleaving of the threads' calls and resets.
CbNext ==
    \/ \E t \in Threads : CbCall(t) \/ CbResetCount(t) \/ CbStep(t)
    \/ Tick

\* One call or reset at a time: none begins while another thread is inside.
CbSeqNext ==
    \/ \E t \in Threads : NoOtherActive(t) /\ (CbCall(t) \/ CbResetCount(t))
    \/ \E t \in Threads : CbStep(t)
    \/ Tick

\* Time passes without end. Only `time.time() - self.last_failure_time` is
\* ever used (line 170), so once the clock has reached MaxTime a further unit
\* of time is the last failure lying one unit further back.
Elapse ==
    /\ IF now < MaxTime
       THEN now' = now + 1 /\ UNCHANGED last_failure_time
       ELSE /\ last_failure_time > 0
            /\ last_failure_time' = last_failure_time - 1
            /\ UNCHANGED now
    /\ UNCHANGED <<CbConfig, state, failure_count, cb_pc, cb_tmp, cb_call, cb_trial,
                   notBreaker>>

\* A call arrives while no other call or reset is under way.
CbArrives == \E t \in Threads : NoOtherActive(t) /\ CbCall(t)

\* One call or reset at a time, for ever.
CbLiveNext ==
    \/ CbArrives
    \/ \E t \in Threads : NoOtherActive(t) /\ CbResetCount(t)
    \/ \E t \in Threads : CbStep(t)
    \/ Elapse

\* Time keeps advancing, calls keep arriving, and every call and reset that
\* has begun runs on to its end.
CbFairness ==
    /\ WF_vars(Elapse)
    /\ SF_vars(CbArrives)
    /\ \A t \in Threads : WF_vars(CbStep(t))

\* ------------------------- breaker.call(f), f made by retry_with_backoff
\* What the breaker's `func(*args, **kwargs)` (line 181) does when func is the
\* retry wrapper: what the wrapper's call ended with.
AsOutcome(res) ==
    Outcome(IF res.kind = "return" THEN "ok" ELSE "raise", res.cls, res.id)

\* The wrapper, called at line 181 by the thread inside the breaker, runs.
NestedFunc ==
    /\ \E t \in Threads : cb_pc[t] = "func"
    /\ \/ RetryCall
       \/ \E out \in FuncOutcomes(Len(hist) + 1) :
             /\ IsFailure(out) => PendingFailures < MaxFailures
             /\ RetryAttempt(out)

\* The wrapper's call has ended: line 181 of thread t has its result or its
\* exception.
NestedFuncEnds(t) ==
    /\ r_pc = "done"
    /\ CbFuncEnds(t, AsOutcome(r_result))

\* The breaker's call is over, and the wrapper's frame with it.
RetryReturn ==
    /\ r_pc = "done"
    /\ \A t \in Threads : cb_pc[t] = "idle"
    /\ r_pc' = "idle"
    /\ attempt' = 0
    /\ delay' = 0
    /\ last_exception' = NoException
    /\ r_result' = NoResult
    /\ hist' = <<>>
    /\ on_retry_log' = <<>>
    /\ sleeps' = <<>>
    /\ UNCHANGED <<max_retries, initial_delay, backoff_factor, exceptions, on_retry,
                   notRetry>>

\* Calls of the breaker around the wrapper and resets, one at a time.
NestedNext ==
    \/ \E t \in Threads :
          /\ NoOtherActive(t)
          /\ r_pc = "idle"
          /\ CbCall(t) \/ CbResetCount(t)
    \/ \E t \in Threads : CbInner(t) \/ NestedFuncEnds(t)
    \/ NestedFunc
    \/ RetryReturn
    \/ Tick

\* ----------------------------------------------------------- InMemoryCache
Keys == {"k1", "k2"}
\* What is stored: two values, and None.
Values == {"v1", "v2", None}
\* set's `ttl: int = None`.
NoTtl == -1
TtlArgs == {NoTtl} \cup (0 .. MaxTtl)

Entry(value, expires_at, created_at) ==
    [value |-> value, expires_at |-> expires_at, created_at |-> created_at]

\* An operation as its caller saw it: its name and key, what it returned, and
\* whether the key had an entry when it began.
Last(op, key, ret, had) == [op |-> op, key |-> key, ret |-> ret, had |-> had]

\* InMemoryCache.__init__ (lines 26-28).
CacheFieldsInit ==
    /\ c_cache = <<>>
    /\ c_last = Last("init", None, None, FALSE)
    /\ c_lastset = [k \in Keys |-> None]

CacheInit ==
    /\ c_ttl \in 1 .. MaxTtl
    /\ CacheFieldsInit

\* A cache with the default ttl (line 19) that nothing calls.
CacheIdle ==
    /\ c_ttl = 3600
    /\ CacheFieldsInit

\* `key in self._cache`
Has(key) == key \in DOMAIN c_cache

\* `del self._cache[key]` for every key of ks.
Without(ks) == [k \in DOMAIN c_cache \ ks |-> c_cache[k]]

\* Mutant: an entry expires when its time is reached.
IsExpired_early(entry, t) == t >= entry.expires_at

\* `time.time() > entry["expires_at"]`
IsExpired(entry, t) == t > entry.expires_at

\* Mutant: only a ttl of None falls back to the default.
TtlOr_zero(ttl) == IF ttl = NoTtl THEN c_ttl ELSE ttl

\* `ttl or self.ttl`
TtlOr(ttl) == IF ttl = NoTtl \/ ttl = 0 THEN c_ttl ELSE ttl

\* get(key), lines 50-64.
CacheGet(key) ==
    /\ IF ~Has(key)
       THEN /\ c_last' = Last("get", key, None, FALSE)
            /\ UNCHANGED c_cache
       ELSE IF IsExpired(c_cache[key], now)
       THEN /\ c_cache' = Without({key})
            /\ c_last' = Last("get", key, None, TRUE)
       ELSE /\ c_last' = Last("get", key, c_cache[key].value, TRUE)
            /\ UNCHANGED c_cache
    /\ UNCHANGED <<c_ttl, c_lastset, now, notCache>>

\* set(key, value, ttl), lines 75-82. The clock is read twice, for expires_at
\* and then for created_at, and may advance by d in between.
CacheSet(key, value, ttl, d) ==
    /\ now + d <= MaxTime
    /\ c_cache' = [k \in DOMAIN c_cache \cup {key} |->
                      IF k = key
                      THEN Entry(value, now + TtlOr(ttl), now + d)
                      ELSE c_cache[k]]
    /\ now' = now + d
    /\ c_last' = Last("set", key, None, Has(key))
    /\ c_lastset' = [c_lastset EXCEPT ![key] = value]
    /\ UNCHANGED <<c_ttl, notCache>>

\* delete(key), lines 86-89.
CacheDelete(key) ==
    /\ c_cache' = IF Has(key) THEN Without({key}) ELSE c_cache
    /\ c_last' = Last("delete", key, None, Has(key))
    /\ UNCHANGED <<c_ttl, c_lastset, now, notCache>>

\* clear(), lines 93-96.
CacheClear ==
    /\ c_cache' = <<>>
    /\ c_last' = Last("clear", None, None, FALSE)
    /\ UNCHANGED <<c_ttl, c_lastset, now, notCache>>

\* Mutant: the sweep stops at the first expired key it finds.
ExpiredKeys_first ==
    LET all == {k \in DOMAIN c_cache : IsExpired(c_cache[k], now)}
    IN  IF all = {} THEN {} ELSE {CHOOSE k \in all : TRUE}

\* The keys cleanup_expired collects (lines 106-110).
ExpiredKeys == {k \in DOMAIN c_cache : IsExpired(c_cache[k], now)}

\* cleanup_expired(), lines 105-121.
CacheCleanupExpired ==
    /\ c_cache' = Without(ExpiredKeys)
    /\ c_last' = Last("cleanup_expired", None, Cardinality(ExpiredKeys), FALSE)
    /\ UNCHANGED <<c_ttl, c_lastset, now, notCache>>

\* stats(), lines 125-129.
CacheStats ==
    /\ c_last' = Last("stats", None, <<Cardinality(DOMAIN c_cache), c_ttl>>, FALSE)
    /\ UNCHANGED <<c_ttl, c_cache, c_lastset, now, notCache>>

CacheNext ==
    \/ \E key \in Keys : CacheGet(key)
    \/ \E key \in Keys, value \in Values, ttl \in TtlArgs, d \in {0, 1} :
           CacheSet(key, value, ttl, d)
    \/ \E key \in Keys : CacheDelete(key)
    \/ CacheClear
    \/ CacheCleanupExpired
    \/ CacheStats
    \/ Tick

\* ------------------------------------------------------ get_cache, cached
\* get_cache's `ttl: int = 3600`, which cached leaves at its default.
DefaultTtl == 3600

\* repr(v), as str(args) writes each positional argument; the values passed
\* to the wrapped function are an int, a tuple and a list with the same items,
\* and an object json cannot serialize.
Repr(v) ==
    CASE v = "int5" -> "5"
      [] v = "tuple12" -> "(1, 2)"
      [] v = "list12" -> "[1, 2]"
      [] v = "object" -> "<object object at 0x1>"

\* json.dumps(v): a tuple is written as a list; an object raises TypeError.
JsonSerializable(v) == v /= "object"
JsonDumps(v) ==
    CASE v = "int5" -> "5"
      [] v \in {"tuple12", "list12"} -> "[1, 2]"

\* The calls of the wrapped function f: f(5), f(x=(1, 2)), f(x=[1, 2]) and
\* f(x=object()): the positional arguments, and the keyword arguments as
\* sorted(kwargs.items()) lists them.
WrapperArgs ==
    {[args |-> <<"int5">>, kwargs |-> <<>>]} \cup
    {[args |-> <<>>, kwargs |-> <<<<"x", v>>>>] : v \in {"tuple12", "list12", "object"}}

\* _generate_key(func.__name__, *args, **kwargs), lines 33-38: whether
\* json.dumps accepts key_data, and the key_string it writes, of which the key
\* is the SHA-256 digest (one digest per string).
KeySerializable(a) ==
    \A i \in 1 .. Len(a.kwargs) : JsonSerializable(a.kwargs[i][2])
GenerateKey(a) ==
    [args |-> <<"'f'">> \o [i \in 1 .. Len(a.args) |-> Repr(a.args[i])],
     kwargs |-> [i \in 1 .. Len(a.kwargs) |->
                    <<a.kwargs[i][1], JsonDumps(a.kwargs[i][2])>>]]

\* What the wrapped function does when invoked: it returns a value or None,
\* or raises.
WrapOutcomes ==
    {Outcome("ok", None, v) : v \in {"v1", None}} \cup
    {Outcome("raise", "ValidationError", 0)}

\* An invocation of the wrapped function: its arguments, the time, the thread
\* whose wrapper made it, and whether it returned or raised.
Invocation(a, at, t, out) == [args |-> a, at |-> at, by |-> t, kind |-> out.kind]

\* What a call found: nothing yet.
NoEntry == [value |-> None, expires_at |-> NoTime, created_at |-> NoTime]
NoPre == [n |-> 0, entry |-> NoEntry, at |-> NoTime]

\* cached(ttl, enabled) applied to f, before any call; `_cache = None` (line 133).
WrapFieldsInit ==
    /\ g_cache = 0
    /\ insts = <<>>
    /\ w_pc = [t \in Threads |-> "idle"]
    /\ w_args = [t \in Threads |-> None]
    /\ w_cache = [t \in Threads |-> 0]
    /\ w_key = [t \in Threads |-> None]
    /\ w_val = [t \in Threads |-> None]
    /\ w_res = [t \in Threads |-> NoResult]
    /\ w_hist = <<>>
    /\ w_pre = [t \in Threads |-> NoPre]

\* Each thread calls a wrapper of f of its own, made with one ttl.
WrapInit ==
    /\ enabled \in [Threads -> BOOLEAN]
    /\ w_ttl \in {NoTtl} \cup (1 .. MaxTtl)
    /\ WrapFieldsInit

\* cached() with its defaults (line 152), which nothing calls.
WrapIdle ==
    /\ enabled = [t \in Threads |-> TRUE]
    /\ w_ttl = NoTtl
    /\ w_observed = FALSE
    /\ WrapFieldsInit

\* InMemoryCache.get on the entries m at time t (lines 50-64): what it
\* returns, and the entries it leaves.
GetValue(m, key, t) ==
    IF key \notin DOMAIN m THEN None
    ELSE IF IsExpired(m[key], t) THEN None
    ELSE m[key].value
GetEntries(m, key, t) ==
    IF key \in DOMAIN m /\ IsExpired(m[key], t)
    THEN [k \in DOMAIN m \ {key} |-> m[k]]
    ELSE m

\* InMemoryCache.set on the entries m of an instance made by get_cache
\* (lines 75-82), the clock read at t and then at t + d.
SetEntries(m, key, value, ttl, t, d) ==
    [k \in DOMAIN m \cup {key} |->
        IF k = key
        THEN Entry(value, t + (IF ttl = NoTtl \/ ttl = 0 THEN DefaultTtl ELSE ttl),
                   t + d)
        ELSE m[k]]

WGoto(t, p) == w_pc' = [w_pc EXCEPT ![t] = p]
\* The call ends and its locals with it.
WFinish(t, res) ==
    /\ w_pc' = [w_pc EXCEPT ![t] = "idle"]
    /\ w_res' = [w_res EXCEPT ![t] = res]
    /\ w_cache' = [w_cache EXCEPT ![t] = 0]
    /\ w_key' = [w_key EXCEPT ![t] = None]
    /\ w_val' = [w_val EXCEPT ![t] = None]

\* The calls under way, each of which invokes the function at most once.
WrapActive == {t \in Threads : w_pc[t] /= "idle"}

\* Mutant: the enabled flag is not looked at.
Bypass_never(t) == FALSE

\* Line 166: `if not enabled`.
Bypass(t) == ~enabled[t]

\* wrapper(*args, **kwargs) is called (lines 165-167).
WrapCall(t, a) ==
    /\ w_pc[t] = "idle"
    /\ Len(w_hist) + Cardinality(WrapActive) < MaxInvocations
    /\ w_args' = [w_args EXCEPT ![t] = a]
    /\ w_res' = [w_res EXCEPT ![t] = NoResult]
    /\ w_pre' = [w_pre EXCEPT ![t] =
                    IF w_observed THEN [NoPre EXCEPT !.n = Len(w_hist)]
                                  ELSE NoPre]
    /\ WGoto(t, IF Bypass(t) THEN "L167" ELSE "L147")
    /\ UNCHANGED <<enabled, w_ttl, g_cache, insts, w_cache, w_key, w_val, w_hist,
                   w_observed, now, notWrap>>

\* Line 167: `return func(*args, **kwargs)`, caching disabled.
WrapFuncDisabled(t, out) ==
    /\ w_pc[t] = "L167"
    /\ w_hist' = Append(w_hist, Invocation(w_args[t], now, t, out))
    /\ WFinish(t, IF IsFailure(out) THEN Result("raise", out.cls, out.id, 0)
                                     ELSE Result("return", None, out.id, 0))
    /\ UNCHANGED <<enabled, w_ttl, g_cache, insts, w_args, w_pre, w_observed, now,
                   notWrap>>

\* get_cache, line 147: `if _cache is None`.
GetCacheCheck(t) ==
    /\ w_pc[t] = "L147"
    /\ WGoto(t, IF g_cache = 0 THEN "L148" ELSE "L149")
    /\ UNCHANGED <<enabled, w_ttl, g_cache, insts, w_args, w_cache, w_key, w_val,
                   w_res, w_hist, w_pre, w_observed, now, notWrap>>

\* get_cache, line 148: `_cache = InMemoryCache(ttl=ttl)`, a new instance.
GetCacheCreate(t) ==
    /\ w_pc[t] = "L148"
    /\ LET new == Cardinality(DOMAIN insts) + 1 IN
          /\ insts' = [i \in DOMAIN insts \cup {new} |->
                          IF i = new THEN <<>> ELSE insts[i]]
          /\ g_cache' = new
    /\ WGoto(t, "L149")
    /\ UNCHANGED <<enabled, w_ttl, w_args, w_cache, w_key, w_val, w_res, w_hist,
                   w_pre, w_observed, now, notWrap>>

\* get_cache, line 149: `return _cache`, and line 169: `cache = get_cache()`.
GetCacheReturn(t) ==
    /\ w_pc[t] = "L149"
    /\ w_cache' = [w_cache EXCEPT ![t] = g_cache]
    /\ WGoto(t, "L170")
    /\ UNCHANGED <<enabled, w_ttl, g_cache, insts, w_args, w_key, w_val, w_res,
                   w_hist, w_pre, w_observed, now, notWrap>>

\* Line 170: `cache_key = cache._generate_key(func.__name__, *args, **kwargs)`;
\* the TypeError of json.dumps leaves the wrapper.
WrapGenerateKey(t) ==
    /\ w_pc[t] = "L170"
    /\ IF KeySerializable(w_args[t])
       THEN /\ w_key' = [w_key EXCEPT ![t] = GenerateKey(w_args[t])]
            /\ WGoto(t, "L173")
            /\ UNCHANGED <<w_res, w_cache, w_val>>
       ELSE WFinish(t, Result("raise", "TypeError", 0, 0))
    /\ UNCHANGED <<enabled, w_ttl, g_cache, insts, w_args, w_hist, w_pre,
                   w_observed, now, notWrap>>

\* Mutant: whatever get returned is taken for a hit.
IsHit_any(value) == TRUE

\* Line 174: `if cached_value is not None`.
IsHit(value) == value /= None

\* Lines 173-179: `cached_value = cache.get(cache_key)`, returned when it is
\* not None.
WrapGet(t) ==
    /\ w_pc[t] = "L173"
    /\ LET m == insts[w_cache[t]]
           v == GetValue(m, w_key[t], now)
       IN  /\ insts' = [insts EXCEPT ![w_cache[t]] = GetEntries(m, w_key[t], now)]
           /\ IF IsHit(v)
              THEN WFinish(t, Result("return", None, v, 0))
              ELSE /\ WGoto(t, "L182")
                   /\ w_val' = [w_val EXCEPT ![t] = v]
                   /\ UNCHANGED <<w_res, w_cache, w_key>>
           /\ w_pre' = [w_pre EXCEPT ![t] =
                           IF w_observed
                           THEN [@ EXCEPT !.at = now,
                                    !.entry = IF w_key[t] \in DOMAIN m
                                              THEN m[w_key[t]] ELSE NoEntry]
                           ELSE @]
    /\ UNCHANGED <<enabled, w_ttl, g_cache, w_args, w_hist, w_observed, now,
                   notWrap>>

\* Line 182: `result = func(*args, **kwargs)`; what it raises leaves the wrapper.
WrapFunc(t, out) ==
    /\ w_pc[t] = "L182"
    /\ w_hist' = Append(w_hist, Invocation(w_args[t], now, t, out))
    /\ IF IsFailure(out)
       THEN WFinish(t, Result("raise", out.cls, out.id, 0))
       ELSE /\ w_val' = [w_val EXCEPT ![t] = out.id]
            /\ WGoto(t, "L185")
            /\ UNCHANGED <<w_res, w_cache, w_key>>
    /\ UNCHANGED <<enabled, w_ttl, g_cache, insts, w_args, w_pre, w_observed, now,
                   notWrap>>

\* Lines 185-191: `cache.set(cache_key, result, ttl=ttl)`; `return result`.
WrapSet(t, d) ==
    /\ w_pc[t] = "L185"
    /\ now + d <= MaxTime
    /\ insts' = [insts EXCEPT ![w_cache[t]] =
                    SetEntries(@, w_key[t], w_val[t], w_ttl, now, d)]
    /\ now' = now + d
    /\ WFinish(t, Result("return", None, w_val[t], 0))
    /\ UNCHANGED <<enabled, w_ttl, g_cache, w_args, w_hist, w_pre, w_observed,
                   notWrap>>

WrapStep(t) ==
    \/ \E a \in WrapperArgs : WrapCall(t, a)
    \/ \E out \in WrapOutcomes : WrapFuncDisabled(t, out)
    \/ GetCacheCheck(t)
    \/ GetCacheCreate(t)
    \/ GetCacheReturn(t)
    \/ WrapGenerateKey(t)
    \/ WrapGet(t)
    \/ \E out \in WrapOutcomes : WrapFunc(t, out)
    \/ \E d \in {0, 1} : WrapSet(t, d)

\* Any interleaving of the threads' calls.
WrapNext ==
    \/ \E t \in Threads : WrapStep(t)
    \/ Tick

\* One call at a time.
WrapSeqNext ==
    \/ \E t \in Threads : WrapActive \subseteq {t} /\ WrapStep(t)
    \/ Tick

\* -------------------------------------------------------- MetricsCollector
NodeNames == {"n1", "n2"}
Operations == {"op1"}
ErrorTypes == {"ValueError"}
\* Durations, in seconds.
Durations == 0 .. MaxDuration

\* float('inf'), above every duration.
Infinity == 1000000

RECURSIVE Gcd(_, _)
Gcd(a, b) == IF b = 0 THEN a ELSE Gcd(b, a % b)

\* The quotient a / b (b > 0) as a fraction in lowest terms; 0.0.
Div(a, b) == <<a \div Gcd(a, b), b \div Gcd(a, b)>>
Zero == <<0, 1>>

\* Mutant: a new node's min_duration starts at 0.0, as its max_duration does.
NewNodeStats_minZero ==
    [count |-> 0, success |-> 0, failure |-> 0, total_duration |-> 0,
     avg_duration |-> Zero, min_duration |-> 0, max_duration |-> 0]

\* The per-node dictionary of lines 58-66.
NewNodeStats ==
    [count |-> 0, success |-> 0, failure |-> 0, total_duration |-> 0,
     avg_duration |-> Zero, min_duration |-> Infinity, max_duration |-> 0]

\* The per-operation dictionary of lines 91-97.
NewLatencyStats ==
    [count |-> 0, total |-> 0, avg |-> Zero, min |-> Infinity, max |-> 0]

\* The dictionary of lines 20-33 and of lines 167-173.
EmptyMetrics ==
    [requests |-> [total |-> 0, success |-> 0, failure |-> 0],
     nodes |-> <<>>,
     latency |-> <<>>,
     errors |-> <<>>,
     cache |-> [hits |-> 0, misses |-> 0]]

\* A call of a method of the collector: its arguments, and the value that the
\* `+=` of line 41 has read and not yet written back.
Op(name, key, duration, success) ==
    [name |-> name, key |-> key, duration |-> duration, success |-> success,
     loaded |-> 0]
NoOp == Op("none", None, 0, FALSE)
MetricsOps ==
    {Op("increment_request", None, 0, b) : b \in BOOLEAN} \cup
    {Op("record_node_execution", n, d, b) :
        n \in NodeNames, d \in Durations, b \in BOOLEAN} \cup
    {Op("record_latency", o, d, FALSE) : o \in Operations, d \in Durations} \cup
    {Op("record_error", e, 0, FALSE) : e \in ErrorTypes} \cup
    {Op("record_cache_hit", None, 0, b) : b \in BOOLEAN} \cup
    {Op("get_metrics", None, 0, FALSE), Op("reset", None, 0, FALSE)}

\* The dictionary get_metrics returns (lines 150-162). Its requests, nodes,
\* latency and errors are the collector's own dictionaries, not copies: while
\* `live`, they are read from and written to `_metrics`; once reset() has
\* given the collector new dictionaries, they are the old ones, kept here.
\* Its cache dictionary and its numbers are made by get_metrics.
Snapshot(live, requests, nodes, latency, errors, cache, success_rate, uptime) ==
    [taken |-> TRUE, live |-> live,
     requests |-> requests, nodes |-> nodes, latency |-> latency,
     errors |-> errors, cache |-> cache,
     success_rate |-> success_rate, uptime_seconds |-> uptime]
NoSnapshot ==
    [Snapshot(FALSE, EmptyMetrics.requests, <<>>, <<>>, <<>>,
              [hits |-> 0, misses |-> 0, hit_rate |-> Zero], Zero, 0)
        EXCEPT !.taken = FALSE]

\* What a holder of the snapshot s reads in it now.
View(s) ==
    IF s.live
    THEN [s EXCEPT !.requests = m_metrics.requests, !.nodes = m_metrics.nodes,
                   !.latency = m_metrics.latency, !.errors = m_metrics.errors]
    ELSE s

\* MetricsCollector.__init__ (lines 20-35).
MetricsFieldsInit ==
    /\ m_metrics = EmptyMetrics
    /\ m_start_time = 0
    /\ m_lock = None
    /\ m_pc = [t \in Threads |-> "idle"]
    /\ m_op = [t \in Threads |-> NoOp]
    /\ m_snap = [t \in Threads |-> NoSnapshot]
    /\ m_log = <<>>


\* The first line of each method's `with self._lock` block.
FirstLine(name) ==
    CASE name = "increment_request" -> "L41"
      [] name = "record_node_execution" -> "L57"
      [] name = "record_latency" -> "L90"
      [] name = "record_error" -> "L114"
      [] name = "record_cache_hit" -> "L121"
      [] name = "get_metrics" -> "L134"
      [] name = "reset" -> "L167"

\* Mutant: the collector's lock admits a thread while another holds it.
MetricsLockFree_always == TRUE

\* threading.Lock (line 34): free while no thread holds it.
MetricsLockFree == m_lock = None

\* A method is called and enters `with self._lock`, which is free.
MetricsCall(t, op) ==
    /\ m_pc[t] = "idle"
    /\ MetricsLockFree
    /\ Len(m_log) < MaxOps
    /\ m_lock' = t
    /\ m_op' = [m_op EXCEPT ![t] = op]
    /\ m_log' = Append(m_log, op)
    /\ m_pc' = [m_pc EXCEPT ![t] = FirstLine(op.name)]
    /\ UNCHANGED <<m_metrics, m_start_time, m_snap, now, notMetrics>>

\* The next statement of the block, and the end of the block, where the lock
\* is released and the method returns.
Advance(t, line) ==
    /\ m_pc' = [m_pc EXCEPT ![t] = line]
    /\ UNCHANGED <<m_lock, m_op>>
Release(t) ==
    /\ m_pc' = [m_pc EXCEPT ![t] = "idle"]
    /\ m_lock' = None
    /\ m_op' = [m_op EXCEPT ![t] = NoOp]

\* increment_request, line 41: `self._metrics["requests"]["total"] += 1` reads
\* the counter,
LoadTotal(t) ==
    /\ m_pc[t] = "L41"
    /\ m_op' = [m_op EXCEPT ![t].loaded = m_metrics.requests.total]
    /\ m_pc' = [m_pc EXCEPT ![t] = "L41_store"]
    /\ UNCHANGED <<m_metrics, m_lock, m_start_time, m_snap, m_log, now, notMetrics>>

\* and then stores what it read plus 1.
IncrementTotal(t) ==
    /\ m_pc[t] = "L41_store"
    /\ m_metrics' = [m_metrics EXCEPT !.requests.total = m_op[t].loaded + 1]
    /\ Advance(t, "L42")
    /\ UNCHANGED <<m_start_time, m_snap, m_log, now, notMetrics>>

\* increment_request, lines 42-45.
IncrementOutcome(t) ==
    /\ m_pc[t] = "L42"
    /\ m_metrics' = IF m_op[t].success
                    THEN [m_metrics EXCEPT !.requests.success = @ + 1]
                    ELSE [m_metrics EXCEPT !.requests.failure = @ + 1]
    /\ Release(t)
    /\ UNCHANGED <<m_start_time, m_snap, m_log, now, notMetrics>>

\* `d[key] = value`: the dictionary d with that item, the others as they were.
Put(d, key, value) ==
    [k \in DOMAIN d \cup {key} |-> IF k = key THEN value ELSE d[k]]

Min2(a, b) == IF a <= b THEN a ELSE b
Max2(a, b) == IF a >= b THEN a ELSE b

\* record_node_execution, lines 57-68: the stats of the name are made if it
\* has none.
NodeCreate(t) ==
    /\ m_pc[t] = "L57"
    /\ m_metrics' = IF m_op[t].key \notin DOMAIN m_metrics.nodes
                    THEN [m_metrics EXCEPT !.nodes = Put(@, m_op[t].key, NewNodeStats)]
                    ELSE m_metrics
    /\ Advance(t, "L69")
    /\ UNCHANGED <<m_start_time, m_snap, m_log, now, notMetrics>>

\* record_node_execution, one of the statements of lines 69-79 on
\* node_metrics: count += 1 (69), success or failure += 1 (71-74),
\* total_duration += duration (76), avg_duration = total_duration / count (77),
\* min_duration = min(...) (78), max_duration = max(...) (79), after which the
\* block ends.
NodeStatement(t) ==
    LET nm == m_metrics.nodes[m_op[t].key]
        d == m_op[t].duration
        new == CASE m_pc[t] = "L69" -> [nm EXCEPT !.count = @ + 1]
                 [] m_pc[t] = "L71" -> IF m_op[t].success
                                       THEN [nm EXCEPT !.success = @ + 1]
                                       ELSE [nm EXCEPT !.failure = @ + 1]
                 [] m_pc[t] = "L76" -> [nm EXCEPT !.total_duration = @ + d]
                 [] m_pc[t] = "L77" ->
                        [nm EXCEPT !.avg_duration = Div(nm.total_duration, nm.count)]
                 [] m_pc[t] = "L78" -> [nm EXCEPT !.min_duration = Min2(@, d)]
                 [] m_pc[t] = "L79" -> [nm EXCEPT !.max_duration = Max2(@, d)]
    IN  /\ m_pc[t] \in {"L69", "L71", "L76", "L77", "L78", "L79"}
        /\ m_op[t].key \in DOMAIN m_metrics.nodes
        /\ m_metrics' = [m_metrics EXCEPT !.nodes = Put(@, m_op[t].key, new)]
        /\ CASE m_pc[t] = "L69" -> Advance(t, "L71")
             [] m_pc[t] = "L71" -> Advance(t, "L76")
             [] m_pc[t] = "L76" -> Advance(t, "L77")
             [] m_pc[t] = "L77" -> Advance(t, "L78")
             [] m_pc[t] = "L78" -> Advance(t, "L79")
             [] m_pc[t] = "L79" -> Release(t)
        /\ UNCHANGED <<m_start_time, m_snap, m_log, now, notMetrics>>

\* record_latency, lines 90-99.
LatencyCreate(t) ==
    /\ m_pc[t] = "L90"
    /\ m_metrics' = IF m_op[t].key \notin DOMAIN m_metrics.latency
                    THEN [m_metrics EXCEPT
                             !.latency = Put(@, m_op[t].key, NewLatencyStats)]
                    ELSE m_metrics
    /\ Advance(t, "L100")
    /\ UNCHANGED <<m_start_time, m_snap, m_log, now, notMetrics>>

\* record_latency, one of the statements of lines 100-104 on lat: count += 1,
\* total += duration, avg = total / count, min = min(...), max = max(...),
\* after which the block ends.
LatencyStatement(t) ==
    LET lat == m_metrics.latency[m_op[t].key]
        d == m_op[t].duration
        new == CASE m_pc[t] = "L100" -> [lat EXCEPT !.count = @ + 1]
                 [] m_pc[t] = "L101" -> [lat EXCEPT !.total = @ + d]
                 [] m_pc[t] = "L102" -> [lat EXCEPT !.avg = Div(lat.total, lat.count)]
                 [] m_pc[t] = "L103" -> [lat EXCEPT !.min = Min2(@, d)]
                 [] m_pc[t] = "L104" -> [lat EXCEPT !.max = Max2(@, d)]
    IN  /\ m_pc[t] \in {"L100", "L101", "L102", "L103", "L104"}
        /\ m_op[t].key \in DOMAIN m_metrics.latency
        /\ m_metrics' = [m_metrics EXCEPT !.latency = Put(@, m_op[t].key, new)]
        /\ CASE m_pc[t] = "L100" -> Advance(t, "L101")
             [] m_pc[t] = "L101" -> Advance(t, "L102")
             [] m_pc[t] = "L102" -> Advance(t, "L103")
             [] m_pc[t] = "L103" -> Advance(t, "L104")
             [] m_pc[t] = "L104" -> Release(t)
        /\ UNCHANGED <<m_start_time, m_snap, m_log, now, notMetrics>>

\* record_error, lines 114-115.
ErrorCreate(t) ==
    /\ m_pc[t] = "L114"
    /\ m_metrics' = IF m_op[t].key \notin DOMAIN m_metrics.errors
                    THEN [m_metrics EXCEPT !.errors = Put(@, m_op[t].key, 0)]
                    ELSE m_metrics
    /\ Advance(t, "L116")
    /\ UNCHANGED <<m_start_time, m_snap, m_log, now, notMetrics>>

\* record_error, line 116.
ErrorCount(t) ==
    /\ m_pc[t] = "L116"
    /\ m_op[t].key \in DOMAIN m_metrics.errors
    /\ m_metrics' = [m_metrics EXCEPT !.errors[m_op[t].key] = @ + 1]
    /\ Release(t)
    /\ UNCHANGED <<m_start_time, m_snap, m_log, now, notMetrics>>

\* record_cache_hit, lines 121-124.
RecordCacheHit(t) ==
    /\ m_pc[t] = "L121"
    /\ m_metrics' = IF m_op[t].success
                    THEN [m_metrics EXCEPT !.cache.hits = @ + 1]
                    ELSE [m_metrics EXCEPT !.cache.misses = @ + 1]
    /\ Release(t)
    /\ UNCHANGED <<m_start_time, m_snap, m_log, now, notMetrics>>

\* Mutant: the rate of the failures.
SuccessRate_failures(requests) ==
    IF requests.total > 0 THEN Div(requests.failure, requests.total) ELSE Zero

\* Lines 144-148.
SuccessRate(requests) ==
    IF requests.total > 0 THEN Div(requests.success, requests.total) ELSE Zero

\* Lines 137-141.
HitRate(cache) ==
    IF cache.hits + cache.misses > 0
    THEN Div(cache.hits, cache.hits + cache.misses)
    ELSE Zero

\* get_metrics, lines 134-162.
GetMetrics(t) ==
    /\ m_pc[t] = "L134"
    /\ m_snap' = [m_snap EXCEPT ![t] =
           Snapshot(TRUE, EmptyMetrics.requests, <<>>, <<>>, <<>>,
                    [hits |-> m_metrics.cache.hits,
                     misses |-> m_metrics.cache.misses,
                     hit_rate |-> HitRate(m_metrics.cache)],
                    SuccessRate(m_metrics.requests),
                    now - m_start_time)]
    /\ Release(t)
    /\ UNCHANGED <<m_metrics, m_start_time, m_log, now, notMetrics>>

\* Mutant: the error counts survive the reset.
ResetAssign_keepErrors(t) ==
    /\ m_pc[t] = "L167"
    /\ m_metrics' = [EmptyMetrics EXCEPT !.errors = m_metrics.errors]
    /\ m_snap' = [u \in Threads |->
                     IF m_snap[u].live
                     THEN [View(m_snap[u]) EXCEPT !.live = FALSE]
                     ELSE m_snap[u]]
    /\ Advance(t, "L174")
    /\ UNCHANGED <<m_start_time, m_log, now, notMetrics>>

\* reset, lines 167-173: `self._metrics` is given new dictionaries; the
\* dictionaries returned by get_metrics keep the old ones.
ResetAssign(t) ==
    /\ m_pc[t] = "L167"
    /\ m_metrics' = EmptyMetrics
    /\ m_snap' = [u \in Threads |->
                     IF m_snap[u].live
                     THEN [View(m_snap[u]) EXCEPT !.live = FALSE]
                     ELSE m_snap[u]]
    /\ Advance(t, "L174")
    /\ UNCHANGED <<m_start_time, m_log, now, notMetrics>>

\* reset, line 174: `self._start_time = time.time()`.
ResetStartTime(t) ==
    /\ m_pc[t] = "L174"
    /\ m_start_time' = now
    /\ Release(t)
    /\ UNCHANGED <<m_metrics, m_snap, m_log, now, notMetrics>>

\* The holder of a snapshot writes into it: `snapshot["requests"]["total"] = 0`.
\* No lock is involved.
SnapshotWrite(t) ==
    /\ m_pc[t] = "idle"
    /\ m_snap[t].taken
    /\ View(m_snap[t]).requests.total > 0
    /\ IF m_snap[t].live
       THEN /\ m_metrics' = [m_metrics EXCEPT !.requests.total = 0]
            /\ UNCHANGED m_snap
       ELSE /\ m_snap' = [m_snap EXCEPT ![t].requests.total = 0]
            /\ UNCHANGED m_metrics
    /\ UNCHANGED <<m_start_time, m_lock, m_pc, m_op, m_log, now, notMetrics>>

MetricsStep(t) ==
    \/ \E op \in MetricsOps : MetricsCall(t, op)
    \/ LoadTotal(t) \/ IncrementTotal(t) \/ IncrementOutcome(t)
    \/ NodeCreate(t) \/ NodeStatement(t)
    \/ LatencyCreate(t) \/ LatencyStatement(t)
    \/ ErrorCreate(t) \/ ErrorCount(t)
    \/ RecordCacheHit(t)
    \/ GetMetrics(t)
    \/ ResetAssign(t) \/ ResetStartTime(t)

\* The collector's methods as its callers' threads run them, and the holders
\* of its snapshots writing into them.
MetricsNext ==
    \/ \E t \in Threads : MetricsStep(t)
    \/ \E t \in Threads : SnapshotWrite(t)
    \/ Tick

\* ------------------------------------- track_time, track_node_execution
\* The decorators applied to f: track_time() and track_time("op1"),
\* track_node_execution("n1").
TrackDecorators ==
    {[kind |-> "track_time", name |-> o] : o \in {None} \cup Operations} \cup
    {[kind |-> "track_node_execution", name |-> "n1"]}

\* What the tracked function does: it returns, raises an Exception or raises
\* a BaseException that is not one.
TrackOutcomes ==
    {Outcome("ok", None, 1)} \cup
    {Outcome("raise", c, 1) : c \in {"ValueError", "KeyboardInterrupt"}}

\* A wrapper's decorator and locals: start_time, success, the duration and
\* what func did; the number of calls the collector had received when the
\* wrapper was called; how the wrapper's call ended.
NoTracked ==
    [kind |-> None, name |-> None, start_time |-> NoTime, success |-> TRUE,
     duration |-> 0, out |-> NoException, base |-> 0, res |-> NoResult]

\* No collector yet (line 179) and no wrapper called.
TrackIdle ==
    /\ g_metrics = FALSE
    /\ tk_pc = [t \in Threads |-> "idle"]
    /\ tk_call = [t \in Threads |-> NoTracked]

TkGoto(t, p) == tk_pc' = [tk_pc EXCEPT ![t] = p]

\* wrapper(*args, **kwargs) is called: lines 208-209, resp. 250-251. (What
\* is kept of the calls that have ended is dropped.)
TrackCall(t, d) ==
    /\ \A u \in Threads : tk_pc[u] \in {"idle", "done"}
    /\ Len(m_log) < MaxOps
    /\ tk_call' = [u \in Threads |->
           IF u = t
           THEN [NoTracked EXCEPT !.kind = d.kind, !.name = d.name,
                                  !.start_time = now, !.base = Len(m_log)]
           ELSE NoTracked]
    /\ tk_pc' = [u \in Threads |-> IF u = t THEN "func" ELSE "idle"]
    /\ UNCHANGED <<g_metrics, metricsVars, now, notTrack>>

\* `except Exception as e` (lines 214, 257) catches what func raised.
Caught(out) == IsFailure(out) /\ Catches({"Exception"}, out.cls)

\* Lines 211-216, resp. 253-263: func is invoked and does `out`; the except
\* clause sets success = False and re-raises.
TrackFunc(t, out) ==
    /\ tk_pc[t] = "func"
    /\ tk_call' = [tk_call EXCEPT ![t].out = out,
                                  ![t].success = IF Caught(out) THEN FALSE ELSE @]
    /\ TkGoto(t, "finally")
    /\ UNCHANGED <<g_metrics, metricsVars, now, notTrack>>

\* The finally clause, lines 218-221, resp. 265-267: the duration, and
\* get_metrics_collector() (lines 189-192), which makes the collector when
\* there is none.
TrackFinally(t) ==
    /\ tk_pc[t] = "finally"
    /\ tk_call' = [tk_call EXCEPT ![t].duration = now - tk_call[t].start_time]
    /\ IF g_metrics
       THEN UNCHANGED <<g_metrics, m_metrics, m_start_time>>
       ELSE /\ g_metrics' = TRUE
            /\ m_metrics' = EmptyMetrics
            /\ m_start_time' = now
    /\ TkGoto(t, "record")
    /\ UNCHANGED <<m_lock, m_pc, m_op, m_snap, m_log, now, notTrack>>

\* `operation or func.__name__` (line 219).
OpName(name) == IF name = None THEN FuncName ELSE name

\* The call of the collector the wrapper makes at line 222, resp. 268.
TrackedOp(c) ==
    IF c.kind = "track_time"
    THEN Op("record_latency", OpName(c.name), c.duration, FALSE)
    ELSE Op("record_node_execution", c.name, c.duration, c.success)

\* Line 222, resp. 268: the method of the collector is called.
TrackRecord(t) ==
    /\ tk_pc[t] = "record"
    /\ Len(m_log) = tk_call[t].base
    /\ MetricsCall(t, TrackedOp(tk_call[t]))
    /\ UNCHANGED g_metrics

\* The method has returned: the wrapper returns result or the exception goes
\* on to its caller (lines 213, 216, resp. 256, 263).
TrackReturn(t) ==
    /\ tk_pc[t] = "record"
    /\ Len(m_log) > tk_call[t].base
    /\ m_pc[t] = "idle"
    /\ tk_call' = [tk_call EXCEPT ![t].res =
           IF IsFailure(tk_call[t].out) THEN RaiseOf(tk_call[t].out)
           ELSE Result("return", None, tk_call[t].out.id, 0)]
    /\ TkGoto(t, "done")
    /\ UNCHANGED <<g_metrics, metricsVars, now, notTrack>>

\* The tracked functions are called one at a time.
TrackNext ==
    \/ \E t \in Threads, d \in TrackDecorators : TrackCall(t, d)
    \/ \E t \in Threads, out \in TrackOutcomes : TrackFunc(t, out)
    \/ \E t \in Threads :
          \/ TrackFinally(t)
          \/ TrackRecord(t)
          \/ NodeCreate(t) \/ NodeStatement(t)
          \/ LatencyCreate(t) \/ LatencyStatement(t)
          \/ TrackReturn(t)
    \/ Tick

\* ------------------------------------------- InMemoryCache shared by threads
\* The methods of one InMemoryCache, statement by statement, as run by threads
\* that share the instance (lines 40-129).

\* The calls the threads make.
KOps ==
    [name : {"get", "delete"}, key : Keys, value : {None}, ttl : {NoTtl}]
    \cup [name : {"set"}, key : Keys, value : {"v1", "v2"}, ttl : {NoTtl, 1}]
    \cup [name : {"clear", "cleanup_expired", "stats"}, key : {None},
          value : {None}, ttl : {NoTtl}]

\* A call's arguments, its locals (ttl after line 75, entry, the time read,
\* expired_keys), what it returned and whether it raised KeyError, and the
\* entries when it took the lock.
KOp(o) ==
    [name |-> o.name, key |-> o.key, value |-> o.value, ttl |-> o.ttl,
     entry |-> None, time |-> NoTime, created |-> NoTime, expired_keys |-> {},
     ret |-> None, raised |-> FALSE, pre |-> <<>>]

NoKOp == KOp([name |-> "none", key |-> None, value |-> None, ttl |-> NoTtl])

\* No thread uses the cache.
LockIdle ==
    /\ k_lock = None
    /\ k_pc = [t \in Threads |-> "idle"]
    /\ k_op = [t \in Threads |-> NoKOp]
    /\ k_n = 0

\* A thread calls a method: set first evaluates `ttl or self.ttl` (line 75),
\* every other method starts at its `with self._lock:`.
KCall(t, o) ==
    /\ k_pc[t] = "idle"
    /\ k_n < MaxOps
    /\ k_n' = k_n + 1
    /\ k_op' = [k_op EXCEPT ![t] = KOp(o)]
    /\ k_pc' = [k_pc EXCEPT ![t] = IF o.name = "set" THEN "L75" ELSE "with"]
    /\ UNCHANGED <<k_lock, c_cache, c_ttl, c_last, c_lastset, now, notLocked>>

\* Mutant: the lock admits a thread while another holds it.
LockFree_always == TRUE

\* threading.Lock (line 28): free while no thread holds it.
LockFree == k_lock = None

\* The first statement of each method's `with` block.
BlockStart(name) ==
    CASE name = "get" -> "L51"
      [] name = "set" -> "L77"
      [] name = "delete" -> "L87"
      [] name = "clear" -> "L94"
      [] name = "cleanup_expired" -> "L106"
      [] name = "stats" -> "L126"

\* `with self._lock:` (lines 50, 76, 86, 93, 105, 125): the thread waits until
\* the lock is free and takes it.
KAcquire(t) ==
    /\ k_pc[t] = "with"
    /\ LockFree
    /\ k_lock' = t
    /\ k_op' = [k_op EXCEPT ![t].pre = c_cache]
    /\ k_pc' = [k_pc EXCEPT ![t] = BlockStart(k_op[t].name)]
    /\ UNCHANGED <<k_n, c_cache, c_ttl, c_last, c_lastset, now, notLocked>>

\* What one statement does: where the thread goes next ("idle" once the method
\* has returned or raised), the entries, and the call's locals. d is what the
\* clock advances between the two reads of lines 79 and 80.
KEffect(t, d) ==
    LET o == k_op[t]
        pc == k_pc[t]
        go(to, entries, op) == [pc |-> to, cache |-> entries, op |-> op]
        KeyError == go("idle", c_cache, [o EXCEPT !.raised = TRUE])
        expired == {k \in DOMAIN c_cache : IsExpired(c_cache[k], now)}
    IN  CASE pc = "L75" ->
                 go("with", c_cache, [o EXCEPT !.ttl = TtlOr(o.ttl)])
          \* get
          [] pc = "L51" ->
                 IF ~Has(o.key) THEN go("idle", c_cache, [o EXCEPT !.ret = None])
                 ELSE go("L55", c_cache, o)
          [] pc = "L55" ->
                 IF ~Has(o.key) THEN KeyError
                 ELSE go("L58", c_cache, [o EXCEPT !.entry = c_cache[o.key]])
          [] pc = "L58" ->
                 IF IsExpired(o.entry, now)
                 THEN go("L60", c_cache, [o EXCEPT !.time = now])
                 ELSE go("idle", c_cache,
                         [o EXCEPT !.time = now, !.ret = o.entry.value])
          [] pc = "L60" ->
                 IF ~Has(o.key) THEN KeyError
                 ELSE go("idle", Without({o.key}), [o EXCEPT !.ret = None])
          \* set
          [] pc = "L77" ->
                 go("idle",
                    [k \in DOMAIN c_cache \cup {o.key} |->
                        IF k = o.key THEN Entry(o.value, now + o.ttl, now + d)
                        ELSE c_cache[k]],
                    [o EXCEPT !.time = now, !.created = now + d])
          \* delete
          [] pc = "L87" ->
                 IF Has(o.key) THEN go("L88", c_cache, o)
                 ELSE go("idle", c_cache, o)
          [] pc = "L88" ->
                 IF ~Has(o.key) THEN KeyError
                 ELSE go("idle", Without({o.key}), o)
          \* clear
          [] pc = "L94" ->
                 go("L95", c_cache, [o EXCEPT !.ret = Cardinality(DOMAIN c_cache)])
          [] pc = "L95" -> go("idle", <<>>, o)
          \* cleanup_expired
          [] pc = "L106" ->
                 go(IF expired = {} THEN "idle" ELSE "L113", c_cache,
                    [o EXCEPT !.time = now, !.expired_keys = expired,
                              !.ret = Cardinality(expired)])
          [] pc = "L113" ->
                 LET key == CHOOSE k \in o.expired_keys : TRUE
                     rest == o.expired_keys \ {key}
                 IN  IF ~Has(key) THEN KeyError
                     ELSE go(IF rest = {} THEN "idle" ELSE "L113",
                             Without({key}), [o EXCEPT !.expired_keys = rest])
          \* stats
          [] pc = "L126" ->
                 go("idle", c_cache,
                    [o EXCEPT !.ret = <<Cardinality(DOMAIN c_cache), c_ttl>>])

\* A thread runs its next statement; leaving the `with` block, by return or
\* by an exception, releases the lock.
KStatement(t) ==
    /\ k_pc[t] \notin {"idle", "with"}
    /\ \E d \in {0, 1} :
           /\ d = 1 => (k_pc[t] = "L77" /\ now < MaxTime)
           /\ now' = now + d
           /\ k_pc' = [k_pc EXCEPT ![t] = KEffect(t, d).pc]
           /\ c_cache' = KEffect(t, d).cache
           /\ k_op' = [k_op EXCEPT ![t] = KEffect(t, d).op]
           /\ k_lock' = IF KEffect(t, d).pc = "idle" /\ k_lock = t
                        THEN None ELSE k_lock
    /\ UNCHANGED <<k_n, c_ttl, c_last, c_lastset, notLocked>>

LockedNext ==
    \/ \E t \in Threads, o \in KOps : KCall(t, o)
    \/ \E t \in Threads : KAcquire(t)
    \/ \E t \in Threads : KStatement(t)
    \/ Tick

\* ---------------------------------------------------------- specifications
\* One call of a wrapper made by retry_with_backoff.
InitRetry ==
    /\ RetryInit /\ ClockInit /\ CbIdle /\ CacheIdle /\ WrapIdle /\ MetricsFieldsInit
    /\ TrackIdle /\ LockIdle
SpecRetry == InitRetry /\ [][RetryNext]_vars

\* The breaker under any interleaving of its callers.
InitBreaker ==
    /\ RetryIdle /\ ClockInit /\ CacheIdle /\ WrapIdle /\ MetricsFieldsInit
    /\ TrackIdle /\ LockIdle
    /\ CbInit
    /\ cb_observed = FALSE
SpecBreaker == InitBreaker /\ [][CbNext]_vars

\* The breaker called by one caller at a time.
InitBreakerSeq ==
    /\ RetryIdle /\ ClockInit /\ CacheIdle /\ WrapIdle /\ MetricsFieldsInit
    /\ TrackIdle /\ LockIdle
    /\ CbInit
    /\ cb_observed = TRUE
SpecBreakerSeq == InitBreakerSeq /\ [][CbSeqNext]_vars

\* The breaker called for ever, one caller at a time, as time goes by.
InitBreakerLive ==
    /\ RetryIdle /\ ClockInit /\ CacheIdle /\ WrapIdle /\ MetricsFieldsInit
    /\ TrackIdle /\ LockIdle
    /\ CbInit
    /\ cb_observed = FALSE
SpecBreakerLive == InitBreakerLive /\ [][CbLiveNext]_vars /\ CbFairness

\* The breaker around a wrapper made by retry_with_backoff(max_retries=n,
\* exceptions=...), n >= 0, the other arguments left at their defaults.
InitNested ==
    /\ RetryInit /\ max_retries >= 0
    /\ initial_delay = 1 /\ backoff_factor = 2 /\ on_retry = FALSE
    /\ ClockInit /\ CacheIdle /\ WrapIdle /\ MetricsFieldsInit /\ TrackIdle /\ LockIdle
    /\ CbInit
    /\ cb_observed = TRUE
SpecNested == InitNested /\ [][NestedNext]_vars

\* One cache, its operations one at a time (each holds the lock throughout).
InitCache ==
    /\ RetryIdle /\ ClockInit /\ CbIdle /\ CacheInit /\ WrapIdle /\ MetricsFieldsInit
    /\ TrackIdle /\ LockIdle
SpecCache == InitCache /\ [][CacheNext]_vars

\* The wrapper made by cached, under any interleaving of its callers.
InitWrap ==
    /\ RetryIdle /\ ClockInit /\ CbIdle /\ CacheIdle /\ MetricsFieldsInit
    /\ TrackIdle /\ LockIdle
    /\ WrapInit
    /\ w_observed = FALSE
SpecWrap == InitWrap /\ [][WrapNext]_vars

\* The wrapper made by cached, called by one caller at a time.
InitWrapSeq ==
    /\ RetryIdle /\ ClockInit /\ CbIdle /\ CacheIdle /\ MetricsFieldsInit
    /\ TrackIdle /\ LockIdle
    /\ WrapInit
    /\ w_observed = TRUE
SpecWrapSeq == InitWrapSeq /\ [][WrapSeqNext]_vars

\* One MetricsCollector and the threads that call it.
InitMetrics ==
    /\ RetryIdle /\ ClockInit /\ CbIdle /\ CacheIdle /\ WrapIdle
    /\ MetricsFieldsInit
    /\ TrackIdle /\ LockIdle
SpecMetrics == InitMetrics /\ [][MetricsNext]_vars

\* The functions wrapped by track_time and track_node_execution.
InitTrack ==
    /\ RetryIdle /\ ClockInit /\ CbIdle /\ CacheIdle /\ WrapIdle
    /\ MetricsFieldsInit
    /\ TrackIdle /\ LockIdle
SpecTrack == InitTrack /\ [][TrackNext]_vars

\* One cache and the threads that share it.
InitLocked ==
    /\ RetryIdle /\ ClockInit /\ CbIdle /\ CacheInit /\ WrapIdle /\ MetricsFieldsInit
    /\ TrackIdle /\ LockIdle
SpecLocked == InitLocked /\ [][LockedNext]_vars

\* ----------------------------------------------- claims on retry_with_backoff
RetryableFailure(o) == IsFailure(o) /\ Catches(exceptions, o.cls)
FatalFailure(o) == IsFailure(o) /\ ~Catches(exceptions, o.cls)
AllRetryableFailures(h) == \A i \in 1 .. Len(h) : RetryableFailure(h[i])

\* C1: for max_retries = n >= 0, while func fails every time with a retryable
\* exception the wrapper keeps invoking it until it has invoked it n+1 times,
\* never more, and the call then ends by raising RetryExhaustedError: the call
\* has ended exactly when n+1 invocations were made.
C1_ExhaustedAfterNPlusOne ==
    (max_retries >= 0 /\ r_pc /= "idle" /\ AllRetryableFailures(hist)) =>
        /\ Len(hist) <= max_retries + 1
        /\ r_pc \in {"loop", "done"}
        /\ (r_pc = "done") <=> (Len(hist) = max_retries + 1)
        /\ r_pc = "done" =>
              /\ r_result.kind = "raise"
              /\ r_result.cls = "RetryExhaustedError"
              /\ r_result.cls /= hist[Len(hist)].cls

C1_Witness ==
    /\ max_retries = 2
    /\ r_pc = "done"
    /\ Len(hist) = 3
    /\ AllRetryableFailures(hist)
    /\ r_result.cls = "RetryExhaustedError"


\* C2: for k <= max_retries, after k retryable failures the wrapper makes
\* invocation k+1, and when that one succeeds the call has ended, with k+1
\* invocations in all, returning the value of invocation k+1 (so not raising
\* RetryExhaustedError).
C2_SuccessAfterKFailures ==
    /\ (r_pc /= "idle" /\ AllRetryableFailures(hist) /\ Len(hist) <= max_retries)
           => r_pc = "loop"
    /\ \A i \in 1 .. Len(hist) :
          (hist[i].kind = "ok" /\ AllRetryableFailures(SubSeq(hist, 1, i - 1))) =>
              /\ i - 1 <= max_retries
              /\ Len(hist) = i
              /\ r_pc = "done"
              /\ r_result = Result("return", None, hist[i].id, 0)

C2_Witness ==
    /\ max_retries >= 2
    /\ r_pc = "done"
    /\ Len(hist) = 3
    /\ AllRetryableFailures(SubSeq(hist, 1, 2))
    /\ hist[3].kind = "ok"
    /\ r_result.kind = "return"


\* C3: an exception outside the retryable set, raised by the first or a later
\* invocation, ends the call at once with that same exception: the invocation
\* that raised it is the last one, and the only on_retry calls and sleeps are
\* those of the retryable failures before it.
C3_NonRetryablePropagates ==
    \A i \in 1 .. Len(hist) :
        FatalFailure(hist[i]) =>
            /\ Len(hist) = i
            /\ r_pc = "done"
            /\ r_result = Result("raise", hist[i].cls, hist[i].id, 0)
            /\ Len(sleeps) = i - 1
            /\ Len(on_retry_log) = IF on_retry THEN i - 1 ELSE 0

C3_Witness ==
    /\ r_pc = "done"
    /\ Len(hist) = 3
    /\ on_retry
    /\ FatalFailure(hist[3])
    /\ r_result.cls = hist[3].cls
    /\ Len(sleeps) = 2


\* ---------------------------------------------------- claims on CircuitBreaker
\* The call's operation raised an exception of the expected class, resp. of
\* another class.
ExpectedFailure(c) == IsFailure(c.out) /\ Catches({expected_exception}, c.out.cls)
UnexpectedFailure(c) == IsFailure(c.out) /\ ~Catches({expected_exception}, c.out.cls)
Invoked(c) == c.inv_state /= None
Rejection == Result("raise", "Exception", CircuitOpenMsg, 0)

\* C4: a call that began with the breaker CLOSED and whose operation raised an
\* expected exception ends with failure_count one higher than it began, with
\* the state OPEN if the new count has reached failure_threshold and CLOSED
\* otherwise, and with the operation's exception raised to the caller.
C4_ClosedFailureCounts ==
    \A t \in Threads :
        LET c == cb_call[t] IN
        (cb_pc[t] = "done" /\ c.pre_state = "CLOSED" /\ ExpectedFailure(c)) =>
            /\ failure_count = c.pre_count + 1
            /\ state = IF c.pre_count + 1 >= failure_threshold THEN "OPEN" ELSE "CLOSED"
            /\ c.res = RaiseOf(c.out)

C4_Witness ==
    \E t \in Threads :
        /\ cb_pc[t] = "done"
        /\ cb_call[t].pre_state = "CLOSED"
        /\ cb_call[t].pre_count = 1
        /\ ExpectedFailure(cb_call[t])
        /\ failure_threshold = 2
        /\ failure_count = 2
        /\ state = "OPEN"

\* C5: a call that began with the breaker OPEN and read the clock (line 170)
\* less than timeout after last_failure_time ends with the rejection, without
\* the operation invoked, and with state, failure_count and last_failure_time
\* as they were when it began.
C5_OpenRejects ==
    \A t \in Threads :
        LET c == cb_call[t] IN
        (cb_pc[t] \notin {"idle", "L168", "L170"} /\ c.pre_state = "OPEN"
             /\ c.t_gate - c.pre_lft < timeout) =>
            /\ cb_pc[t] = "done"
            /\ c.res = Rejection
            /\ ~Invoked(c)
            /\ state = c.pre_state
            /\ failure_count = c.pre_count
            /\ last_failure_time = c.pre_lft

C5_Witness ==
    \E t \in Threads :
        /\ cb_pc[t] = "done"
        /\ cb_call[t].pre_state = "OPEN"
        /\ cb_call[t].t_gate - cb_call[t].pre_lft < timeout
        /\ cb_call[t].t_gate > cb_call[t].pre_lft
        /\ cb_call[t].res = Rejection
        /\ state = "OPEN"

\* C6: a call that began with the breaker OPEN and read the clock timeout or
\* more after last_failure_time is admitted: it is not rejected, its operation
\* runs with the state HALF_OPEN, and when the operation succeeds the call
\* returns its result with the breaker CLOSED and failure_count = 0.
C6_TrialSuccessCloses ==
    \A t \in Threads :
        LET c == cb_call[t] IN
        (cb_pc[t] \notin {"idle", "L168", "L170"} /\ c.pre_state = "OPEN"
             /\ c.t_gate - c.pre_lft >= timeout) =>
            /\ c.res /= Rejection
            /\ cb_pc[t] = "func" => state = "HALF_OPEN" /\ c.inv_state = "HALF_OPEN"
            /\ cb_pc[t] = "done" => Invoked(c)
            /\ (cb_pc[t] = "done" /\ c.out.kind = "ok") =>
                  /\ c.res = Result("return", None, c.out.id, 0)
                  /\ state = "CLOSED"
                  /\ failure_count = 0

C6_Witness ==
    \E t \in Threads :
        /\ cb_pc[t] = "done"
        /\ cb_call[t].pre_state = "OPEN"
        /\ cb_call[t].pre_count >= failure_threshold
        /\ cb_call[t].t_gate - cb_call[t].pre_lft = timeout
        /\ cb_call[t].inv_state = "HALF_OPEN"
        /\ cb_call[t].out.kind = "ok"
        /\ cb_call[t].res.kind = "return"
        /\ state = "CLOSED"
        /\ failure_count = 0

\* A call whose operation was invoked and which has not ended.
InProgress(t) == Invoked(cb_call[t]) /\ cb_pc[t] /= "done"

\* C7 as stated: when a trial (an operation invoked with the breaker HALF_OPEN)
\* raises an expected exception, the call ends with the breaker OPEN and
\* last_failure_time a time read after the operation raised; and from then on
\* no operation is invoked by a call whose gate is passed less than timeout
\* after the trial's failure.
C7_Original ==
    /\ \A t \in Threads :
          LET c == cb_call[t] IN
          (cb_pc[t] = "done" /\ c.inv_state = "HALF_OPEN" /\ ExpectedFailure(c)) =>
              /\ state = "OPEN"
              /\ c.t_raise <= last_failure_time /\ last_failure_time <= now
              /\ c.res = RaiseOf(c.out)
    /\ \A t \in Threads :
          (cb_trial.at /= NoTime /\ InProgress(t)) =>
              cb_call[t].t_gate - cb_trial.at >= timeout

\* C7, amended: the same, for the calls made while reset() has not been
\* called since the trial's failure.
C7_TrialFailureReopens ==
    /\ \A t \in Threads :
          LET c == cb_call[t] IN
          (cb_pc[t] = "done" /\ c.inv_state = "HALF_OPEN" /\ ExpectedFailure(c)) =>
              /\ state = "OPEN"
              /\ c.t_raise <= last_failure_time /\ last_failure_time <= now
              /\ c.res = RaiseOf(c.out)
    /\ \A t \in Threads :
          (cb_trial.at /= NoTime /\ ~cb_trial.reset /\ InProgress(t)) =>
              cb_call[t].t_gate - cb_trial.at >= timeout

\* A trial has failed, a later call was rejected inside the new window (and
\* outside the window of the failure before it).
C7_Witness ==
    \E t \in Threads :
        /\ cb_trial.at /= NoTime /\ ~cb_trial.reset
        /\ cb_pc[t] = "done"
        /\ cb_call[t].res = Rejection
        /\ cb_call[t].pre_lft >= cb_trial.at
        /\ cb_call[t].t_gate - cb_trial.at < timeout
        /\ state = "OPEN"

\* C8: at most one operation invoked with the breaker HALF_OPEN is running.
C8_OneTrialAtATime ==
    Cardinality({t \in Threads :
                    cb_pc[t] = "func" /\ cb_call[t].inv_state = "HALF_OPEN"}) <= 1

\* C9: a call that began with the breaker CLOSED or OPEN and whose operation
\* raised an exception not of the expected class ends with that exception and
\* with state, failure_count and last_failure_time as they were when it began.
C9_UnexpectedLeavesFields ==
    \A t \in Threads :
        LET c == cb_call[t] IN
        (cb_pc[t] = "done" /\ c.pre_state \in {"CLOSED", "OPEN"} /\ UnexpectedFailure(c)) =>
            /\ c.res = RaiseOf(c.out)
            /\ state = c.pre_state
            /\ failure_count = c.pre_count
            /\ last_failure_time = c.pre_lft

\* ----------------------------------------------------- claims on InMemoryCache
\* C10: get(key) returns the value last passed to set for key when key has an
\* entry and now <= its expires_at, and None otherwise; it removes the entry
\* of key when that entry has now > expires_at, and changes nothing else of
\* the map.
C10_GetPost(key) ==
    LET live == key \in DOMAIN c_cache /\ now <= c_cache[key].expires_at
        dead == key \in DOMAIN c_cache /\ now > c_cache[key].expires_at
    IN  /\ c_last'.ret = IF live THEN c_lastset[key] ELSE None
        /\ dead => key \notin DOMAIN c_cache'
        /\ ~dead => DOMAIN c_cache' = DOMAIN c_cache
        /\ \A k \in DOMAIN c_cache \ {key} :
              k \in DOMAIN c_cache' /\ c_cache'[k] = c_cache[k]
        /\ \A k \in DOMAIN c_cache' : k \in DOMAIN c_cache /\ c_cache'[k] = c_cache[k]

C10_GetReturnsLiveValue ==
    [][\A key \in Keys : CacheGet(key) => C10_GetPost(key)]_vars

\* A get has just removed the expired entry of its key and left the other
\* key's entry.
C10_Witness ==
    /\ c_last.op = "get"
    /\ c_last.had
    /\ c_last.ret = None
    /\ c_last.key \notin DOMAIN c_cache
    /\ c_lastset[c_last.key] /= None
    /\ Keys \ {c_last.key} \subseteq DOMAIN c_cache

\* C11: cleanup_expired() removes exactly the entries with now > expires_at,
\* returns how many it removed, and leaves every other entry (key, value and
\* expiry) as it was; this in any order with get, set and delete.
C11_CleanupPost ==
    LET dead == {k \in DOMAIN c_cache : now > c_cache[k].expires_at}
    IN  /\ DOMAIN c_cache' = DOMAIN c_cache \ dead
        /\ \A k \in DOMAIN c_cache \ dead : c_cache'[k] = c_cache[k]
        /\ c_last'.ret = Cardinality(dead)

C11_CleanupRemovesExpired == [][CacheCleanupExpired => C11_CleanupPost]_vars

\* A sweep has just removed one key's expired entry and left the other key's
\* entry in place.
C11_Witness ==
    /\ c_last.op = "cleanup_expired"
    /\ c_last.ret = 1
    /\ DOMAIN c_cache /= {}

\* ------------------------------------------------------------ claims on cached
\* The ttl of the entries a wrapper stores.
WrapTtl == IF w_ttl = NoTtl THEN DefaultTtl ELSE w_ttl

\* The step ends a call of thread t made with caching enabled, after its key
\* was derived.
EndsCachedCall(t) ==
    /\ enabled[t]
    /\ w_pc[t] \in {"L173", "L182", "L185"}
    /\ w_pc'[t] = "idle"

\* C12: a call of an enabled wrapper whose fingerprint has an unexpired entry
\* returns the stored value without invoking the function; a call whose
\* fingerprint has none invokes the function once, and when the function
\* returns, stores the result under the fingerprint and returns it; a value
\* served was stored by a call with the same arguments.
C12_CallPost(t) ==
    LET pre == w_pre'[t]
        live == pre.entry /= NoEntry /\ pre.at <= pre.entry.expires_at
        m == insts'[w_cache[t]]
    IN  /\ live =>
              /\ w_res'[t] = Result("return", None, pre.entry.value, 0)
              /\ Len(w_hist') = pre.n
              /\ \E i \in 1 .. pre.n : w_hist'[i].args = w_args[t]
        /\ ~live =>
              /\ Len(w_hist') = pre.n + 1
              /\ w_hist'[pre.n + 1].args = w_args[t]
              /\ w_res'[t].kind = "return" =>
                    /\ w_key[t] \in DOMAIN m
                    /\ m[w_key[t]].value = w_res'[t].id

C12_HitServedMissInvoked ==
    [][\A t \in Threads : EndsCachedCall(t) => C12_CallPost(t)]_vars

\* C13: the function is invoked at most once per fingerprint per TTL window:
\* of two invocations made by enabled wrappers for one fingerprint, the
\* earlier of which returned, the later comes more than the ttl after the
\* earlier, whatever value was returned and however the calls overlap.
C13_OncePerWindow ==
    \A i, j \in 1 .. Len(w_hist) :
        (/\ i < j
         /\ enabled[w_hist[i].by] /\ enabled[w_hist[j].by]
         /\ w_hist[i].kind = "ok"
         /\ GenerateKey(w_hist[i].args) = GenerateKey(w_hist[j].args)) =>
            w_hist[j].at > w_hist[i].at + WrapTtl

\* C14: with enabled = false every call invokes the function, and no step of
\* the call reads or writes the cache: `_cache` and the entries of every
\* instance are the same after each step of the call, so after the call.
C14_Disabled(t) ==
    (~enabled[t] /\ w_pc'[t] /= w_pc[t]) =>
        /\ g_cache' = g_cache
        /\ insts' = insts
        /\ w_pc'[t] = "idle" =>
              /\ Len(w_hist') = w_pre[t].n + 1
              /\ w_hist'[Len(w_hist')].args = w_args[t]
              /\ (w_hist'[Len(w_hist')].kind = "ok") = (w_res'[t].kind = "return")

C14_DisabledBypassesCache == [][\A t \in Threads : C14_Disabled(t)]_vars

\* A disabled wrapper has been called and has returned what the function
\* returned, while the shared cache holds an entry stored through the other
\* thread's enabled wrapper.
C14_Witness ==
    \E t \in Threads :
        /\ ~enabled[t]
        /\ w_pc[t] = "idle"
        /\ w_res[t].kind = "return"
        /\ w_hist[Len(w_hist)].by = t
        /\ g_cache /= 0
        /\ DOMAIN insts[g_cache] /= {}

\* -------------------------------------------------- claims on MetricsCollector
\* The calls made since the last reset() (all of them when there was none).
SinceReset ==
    LET resets == {i \in 1 .. Len(m_log) : m_log[i].name = "reset"}
        last == IF resets = {} THEN 0
                ELSE CHOOSE i \in resets : \A j \in resets : j <= i
    IN  (last + 1) .. Len(m_log)

\* The record_node_execution calls for the node name n among them.
NodeCalls(n) ==
    {i \in SinceReset : m_log[i].name = "record_node_execution" /\ m_log[i].key = n}

RECURSIVE SumOfDurations(_)
SumOfDurations(I) ==
    IF I = {} THEN 0
    ELSE LET i == CHOOSE x \in I : TRUE
         IN  m_log[i].duration + SumOfDurations(I \ {i})

\* C15: while no call is under way, a node name with recorded executions has
\* count = their number, success and failure = the numbers of each, which
\* add up to count, total_duration = the sum of the durations, avg_duration =
\* total_duration / count, min_duration and max_duration = the smallest and
\* the largest duration; a name with none has no stats.
C15_NodeStats ==
    m_lock = None =>
        \A n \in NodeNames :
            LET I == NodeCalls(n)
                st == m_metrics.nodes[n]
            IN  IF I = {} THEN n \notin DOMAIN m_metrics.nodes
                ELSE /\ n \in DOMAIN m_metrics.nodes
                     /\ st.count = Cardinality(I)
                     /\ st.success = Cardinality({i \in I : m_log[i].success})
                     /\ st.success + st.failure = st.count
                     /\ st.total_duration = SumOfDurations(I)
                     /\ st.avg_duration[2] > 0
                     /\ st.avg_duration[1] * st.count =
                            st.total_duration * st.avg_duration[2]
                     /\ \E i \in I : st.min_duration = m_log[i].duration
                     /\ \A i \in I : st.min_duration <= m_log[i].duration
                     /\ \E i \in I : st.max_duration = m_log[i].duration
                     /\ \A i \in I : st.max_duration >= m_log[i].duration

\* Two executions of different durations are recorded for one node, one for
\* the other, and no call is under way.
C15_Witness ==
    /\ m_lock = None
    /\ \E n \in NodeNames :
          /\ Cardinality(NodeCalls(n)) = 2
          /\ m_metrics.nodes[n].min_duration > 0
          /\ m_metrics.nodes[n].min_duration < m_metrics.nodes[n].max_duration
          /\ \E o \in NodeNames \ {n} : Cardinality(NodeCalls(o)) = 1

\* The step is the body of get_metrics run by thread t.
GetMetricsReturns(t) == m_pc[t] = "L134" /\ m_pc'[t] = "idle"

\* The fraction r is a / b, or 0 when b = 0.
IsRate(r, a, b) ==
    IF b = 0 THEN r = <<0, 1>>
    ELSE r[2] > 0 /\ r[1] * b = a * r[2]

\* C16: what get_metrics returns has success_rate = success / total and
\* cache.hit_rate = hits / (hits + misses) of the counters as they are when it
\* runs, and 0 for a rate whose denominator is 0.
C16_Rates ==
    [][\A t \in Threads : GetMetricsReturns(t) =>
          /\ m_snap'[t].taken
          /\ IsRate(m_snap'[t].success_rate,
                    m_metrics.requests.success, m_metrics.requests.total)
          /\ IsRate(m_snap'[t].cache.hit_rate,
                    m_metrics.cache.hits,
                    m_metrics.cache.hits + m_metrics.cache.misses)
          /\ m_snap'[t].cache.hits = m_metrics.cache.hits
          /\ m_snap'[t].cache.misses = m_metrics.cache.misses]_vars

\* get_metrics has returned a success_rate of 1/2 with a hit_rate of 0 for
\* want of samples, or a hit_rate of 1/2 with a success_rate of 0 for want of
\* requests.
C16_Witness ==
    \E t \in Threads :
        /\ m_snap[t].taken
        /\ m_log[Len(m_log)].name = "get_metrics"
        /\ m_lock = None
        /\ \/ /\ m_snap[t].success_rate = <<1, 2>>
              /\ m_snap[t].cache.hit_rate = <<0, 1>>
           \/ /\ m_snap[t].cache.hit_rate = <<1, 2>>
              /\ m_snap[t].success_rate = <<0, 1>>

\* The aggregates a reader finds in what get_metrics returned.
Aggregates(v) ==
    [requests |-> v.requests, nodes |-> v.nodes, latency |-> v.latency,
     errors |-> v.errors, hits |-> v.cache.hits, misses |-> v.cache.misses]
AllZero ==
    [requests |-> [total |-> 0, success |-> 0, failure |-> 0],
     nodes |-> <<>>, latency |-> <<>>, errors |-> <<>>, hits |-> 0, misses |-> 0]

\* Thread t is inside reset(); and the call under way is the first since a
\* reset().
InReset(t) == m_pc[t] \in {"L167", "L174"}
NothingSinceReset ==
    /\ Len(m_log) >= 2
    /\ m_log[Len(m_log) - 1].name = "reset"

\* C17: reset() leaves every aggregate zero and restarts the uptime clock, so
\* a get_metrics() that follows it, whatever was recorded before, shows zero
\* requests, hits and misses and empty nodes, latency and errors; while a
\* reset() is under way no other thread is inside a method of the collector,
\* and what the holders of earlier snapshots read is not changed by it.
C17_ResetPost ==
    /\ \A t \in Threads :
          (m_pc[t] = "L167" /\ m_pc'[t] = "L174") =>
              /\ Aggregates(m_metrics') = AllZero
              /\ \A u \in Threads :
                    Aggregates(View(m_snap[u])') = Aggregates(View(m_snap[u]))
    /\ \A t \in Threads :
          (m_pc[t] = "L174" /\ m_pc'[t] = "idle") => m_start_time' = now
    /\ \A t \in Threads :
          InReset(t) => \A u \in Threads \ {t} : m_pc[u] = "idle" /\ m_pc'[u] = "idle"
    /\ \A t \in Threads :
          (GetMetricsReturns(t) /\ NothingSinceReset) =>
              /\ Aggregates(View(m_snap[t])') = AllZero
              /\ m_snap'[t].success_rate = <<0, 1>>
              /\ m_snap'[t].cache.hit_rate = <<0, 1>>
              /\ m_snap'[t].uptime_seconds = now - m_start_time
              /\ m_snap'[t].uptime_seconds <= now

C17_ResetZeroes == [][C17_ResetPost]_vars

\* A request and an error were recorded, reset() was called, and the
\* get_metrics() called next has returned.
C17_Witness ==
    \E t \in Threads :
        /\ m_lock = None
        /\ Len(m_log) = 3
        /\ m_log[1].name \in {"increment_request", "record_error"}
        /\ m_log[2].name = "reset"
        /\ m_log[3].name = "get_metrics"
        /\ m_snap[t].taken
        /\ m_snap[t].live

\* C18: what get_metrics() returned does not change afterwards: a step other
\* than the holder's own next get_metrics or its own write leaves every value
\* read in it as it was; a write of the holder into it leaves the collector's
\* `_metrics` as it was; and the per-name stats read in it always have
\* avg_duration = total_duration / count.
C18_Stable(t) ==
    LET v == View(m_snap[t])
        w == View(m_snap[t])'
    IN  /\ (m_snap[t].taken /\ ~GetMetricsReturns(t) /\ ~SnapshotWrite(t)) =>
              /\ Aggregates(w) = Aggregates(v)
              /\ w.success_rate = v.success_rate
        /\ SnapshotWrite(t) => m_metrics' = m_metrics
        /\ m_snap[t].taken =>
              \A n \in DOMAIN v.nodes :
                  v.nodes[n].count > 0 =>
                      IsRate(v.nodes[n].avg_duration,
                             v.nodes[n].total_duration, v.nodes[n].count)

C18_SnapshotImmutable == [][\A t \in Threads : C18_Stable(t)]_vars

\* ------------------------------------------- claims on the errors of the layers
\* C19: the RetryExhaustedError raised at the last attempt carries the
\* function's name, attempts = max_retries + 1 and the str() of the error that
\* attempt raised, which is not the str() of any earlier attempt's error; its
\* class is not the class of that error.
C19_ExhaustedCarries ==
    (r_pc = "done" /\ r_result.cls = "RetryExhaustedError" /\ Len(hist) > 0) =>
        LET final == hist[Len(hist)] IN
        /\ r_result.kind = "raise"
        /\ r_result.function = "f"
        /\ r_result.attempts = max_retries + 1
        /\ r_result.attempts = Len(hist)
        /\ r_result.id = final.id
        /\ \A i \in 1 .. Len(hist) - 1 : r_result.id /= hist[i].id
        /\ r_result.cls /= final.cls

\* A call has been exhausted after several attempts that raised errors of
\* different classes.
C19_Witness ==
    /\ r_pc = "done"
    /\ r_result.cls = "RetryExhaustedError"
    /\ Len(hist) >= 3
    /\ hist[1].cls /= hist[Len(hist)].cls

\* C20: the error with which an OPEN breaker rejects a call is of a kind of its
\* own: an `except` clause for it catches no error the operation raises, and
\* the clause with which an enclosing breaker or retry of the same
\* configuration catches the operation's failures does not catch it.
C20_RejectionDistinct ==
    \A t \in Threads :
        LET c == cb_call[t] IN
        (cb_pc[t] = "done" /\ ~Invoked(c) /\ c.res.id = CircuitOpenMsg) =>
            /\ c.res.kind = "raise"
            /\ \A cls \in CbRaisedClasses : ~Catches({c.res.cls}, cls)
            /\ ~Catches({expected_exception}, c.res.cls)
            /\ ~Catches({"Exception"}, c.res.cls)

\* ------------------------------------------- claims on validation failures
\* The decorator was applied with its default arguments (lines 15-19).
DefaultRetry ==
    /\ max_retries = 3
    /\ initial_delay = 1
    /\ backoff_factor = 2
    /\ exceptions = {"Exception"}
    /\ ~on_retry

\* C21: under retry_with_backoff with its default arguments, an invocation
\* that raises ValidationError is the only invocation of the call, and the
\* call ends at once by raising that same ValidationError.
C21_ValidationPropagates ==
    DefaultRetry =>
        \A i \in 1 .. Len(hist) :
            hist[i].cls = "ValidationError" =>
                /\ i = 1
                /\ Len(hist) = 1
                /\ r_pc = "done"
                /\ r_result = Result("raise", "ValidationError", hist[i].id, 0)

\* ------------------------------------------- claims on underivable cache keys
\* Thread t's last call of the wrapper has ended, resp. has invoked the function.
WrapEnded(t) == w_pc[t] = "idle" /\ w_res[t] /= NoResult
WrapInvoked(t) ==
    \E i \in w_pre[t].n + 1 .. Len(w_hist) :
        w_hist[i].by = t /\ w_hist[i].args = w_args[t]

\* C22: a call of the wrapper, caching enabled, whose key cannot be derived
\* (json.dumps rejects a keyword argument's value) ends by raising CacheError
\* or has invoked the function.
C22_NoKeyFailsOpen ==
    \A t \in Threads :
        (WrapEnded(t) /\ ~Bypass(t) /\ ~KeySerializable(w_args[t])) =>
            \/ w_res[t].kind = "raise" /\ w_res[t].cls = "CacheError"
            \/ WrapInvoked(t)

\* ------------------------------------------------- claims on the backoff
RECURSIVE Pow(_, _)
Pow(b, n) == IF n = 0 THEN 1 ELSE b * Pow(b, n - 1)

\* The attempts (0-based) that failed with a retryable error and were not the
\* last of the budget.
RetriedAttempts ==
    {a \in 0 .. Len(hist) - 1 : RetryableFailure(hist[a + 1]) /\ a < max_retries}

\* C23: the j-th sleep of a call (j = 0, 1, ...) lasts
\* initial_delay * backoff_factor^j; there is one sleep for each retryable
\* failure that was not the last attempt's and no other; a call that ends
\* exhausted has slept max_retries times, once between each two invocations
\* and not after the last.
C23_BackoffSchedule ==
    /\ \A j \in 0 .. Len(sleeps) - 1 :
          sleeps[j + 1] = initial_delay * Pow(backoff_factor, j)
    /\ Len(sleeps) = Cardinality(RetriedAttempts)
    /\ (max_retries >= 0 /\ r_pc = "done" /\ r_result.cls = "RetryExhaustedError") =>
          /\ Len(sleeps) = max_retries
          /\ Len(sleeps) = Len(hist) - 1

\* An exhausted call has slept three times, the delay doubling each time.
C23_Witness ==
    /\ r_pc = "done"
    /\ r_result.cls = "RetryExhaustedError"
    /\ max_retries = 3
    /\ backoff_factor = 2
    /\ Len(sleeps) = 3
    /\ sleeps[3] = 4 * initial_delay

\* ------------------------------------------------- claims on the trackers
\* C24: when a call of a wrapper made by track_time or track_node_execution
\* has ended, the collector has received exactly one call since the wrapper
\* was called: record_latency under the operation's name with the time func
\* took, resp. record_node_execution under the node's name with that time and
\* success = true iff func returned; the sample is in the collector; and the
\* wrapper has returned func's result or raised the exception func raised.
C24_OneSamplePerCall ==
    \A t \in Threads :
        LET c == tk_call[t] IN
        tk_pc[t] = "done" =>
            /\ Len(m_log) = c.base + 1
            /\ m_log[Len(m_log)] =
                  IF c.kind = "track_time"
                  THEN Op("record_latency", OpName(c.name), c.duration, FALSE)
                  ELSE Op("record_node_execution", c.name, c.duration,
                          c.out.kind = "ok")
            /\ IF c.kind = "track_time"
               THEN OpName(c.name) \in DOMAIN m_metrics.latency
               ELSE c.name \in DOMAIN m_metrics.nodes
            /\ c.res = IF c.out.kind = "ok"
                       THEN Result("return", None, c.out.id, 0)
                       ELSE Result("raise", c.out.cls, c.out.id, 0)

\* ------------------------------------------- claims on the request counters
\* The increment_request calls since the last reset.
RequestCalls == {i \in SinceReset : m_log[i].name = "increment_request"}

\* C25: while no call is under way, requests.total = requests.success +
\* requests.failure, and each increment_request call has added 1 to total and
\* 1 to success or to failure, according to its argument: total is the number
\* of the calls and success the number of those with success = True.
C25_RequestsBalanced ==
    m_lock = None =>
        LET r == m_metrics.requests IN
        /\ r.total = r.success + r.failure
        /\ r.total = Cardinality(RequestCalls)
        /\ r.success = Cardinality({i \in RequestCalls : m_log[i].success})

\* ------------------------------------- claims on the breaker's callers together
\* C26: a step that takes the breaker's state to CLOSED from another state
\* (line 187 after a trial's success, line 220 in reset) leaves
\* failure_count = 0, whatever the other callers have done since the count was
\* set to 0.
C26_ClosedMeansZero ==
    [][(state /= "CLOSED" /\ state' = "CLOSED") => failure_count' = 0]_vars

\* C27: the store of `self.failure_count += 1` (line 192) of a call invoked
\* with the breaker CLOSED raises failure_count by one from the value it has
\* at that moment, so that the failures of callers running together are all
\* counted; and a failed call ends with the breaker OPEN when the count has
\* reached the threshold.
C27_Post(t) ==
    /\ (CbFailStore(t) /\ cb_call[t].inv_state = "CLOSED") =>
           failure_count' = failure_count + 1
    /\ (cb_pc[t] \in {"L205", "L206"} /\ cb_pc'[t] = "done"
            /\ failure_count' >= failure_threshold) => state' = "OPEN"
C27_NoLostUpdate == [][\A t \in Threads : C27_Post(t)]_vars

\* ------------------------------------------- claims on the retry loop's end
\* C28: whatever the invocations do, a call of the wrapper makes at most
\* max_retries + 1 of them, is still running only while fewer were made, and
\* ends in exactly one of three ways: returning the last invocation's value;
\* raising the last invocation's own exception, which is not retryable; or
\* raising RetryExhaustedError after max_retries + 1 invocations that all
\* failed with retryable exceptions.
C28_BoundedAndClassified ==
    /\ Len(hist) <= max_retries + 1
    /\ r_pc = "loop" => Len(hist) <= max_retries
    /\ r_pc = "done" =>
          LET final == hist[Len(hist)]
              returned == /\ Len(hist) > 0
                          /\ final.kind = "ok"
                          /\ r_result = Result("return", None, final.id, 0)
              propagated == /\ Len(hist) > 0
                            /\ FatalFailure(final)
                            /\ r_result = Result("raise", final.cls, final.id, 0)
              exhausted == /\ r_result.kind = "raise"
                           /\ r_result.cls = "RetryExhaustedError"
                           /\ Len(hist) = max_retries + 1
                           /\ AllRetryableFailures(hist)
          IN  /\ returned \/ propagated \/ exhausted
              /\ ~(returned /\ propagated)
              /\ ~(returned /\ exhausted)
              /\ ~(propagated /\ exhausted)

\* A call for which only ValueError is retryable is exhausted at its third
\* invocation.
C28_Witness ==
    /\ r_pc = "done"
    /\ exceptions = {"ValueError"}
    /\ max_retries = 2
    /\ Len(hist) = 3
    /\ r_result.cls = "RetryExhaustedError"

\* --------------------------------------------------- claims on on_retry
\* C29: with a callback given, on_retry has been called once for each attempt
\* that failed with a retryable error and was not the last of the budget, in
\* the order of the attempts and for no other attempt; the call for attempt i
\* had the arguments (i, the error attempt i raised) and was made when i
\* sleeps had been made (before the sleep that follows attempt i) and i + 1
\* invocations (before attempt i + 1). Without a callback nothing is called.
C29_OnRetryCalls ==
    IF on_retry
    THEN /\ Len(on_retry_log) = Cardinality(RetriedAttempts)
         /\ \A k \in 1 .. Len(on_retry_log) :
               LET c == on_retry_log[k] IN
               /\ c.attempt \in RetriedAttempts
               /\ c.error = hist[c.attempt + 1]
               /\ c.slept = c.attempt
               /\ c.invoked = c.attempt + 1
               /\ \A l \in 1 .. k - 1 : on_retry_log[l].attempt < c.attempt
    ELSE on_retry_log = <<>>

\* An exhausted call of three attempts has called on_retry for the first two.
C29_Witness ==
    /\ r_pc = "done"
    /\ on_retry
    /\ max_retries = 2
    /\ Len(hist) = 3
    /\ AllRetryableFailures(hist)
    /\ Len(on_retry_log) = 2
    /\ on_retry_log[2].attempt = 1

\* ------------------------------------- claims on the breaker around a retry
\* C30: when a call of the breaker whose operation is a retry wrapper has
\* ended, every attempt of the wrapper having failed and the error that left
\* the wrapper being one the breaker expects, failure_count is one more than
\* when the call began, however many attempts were made; the error the
\* breaker saw and raises is the one that left the wrapper.
C30_OneFailurePerLogicalCall ==
    \A t \in Threads :
        LET c == cb_call[t] IN
        (/\ cb_pc[t] = "done" /\ Invoked(c)
         /\ r_pc = "done" /\ Len(hist) >= 1
         /\ \A i \in 1 .. Len(hist) : IsFailure(hist[i])
         /\ Catches({expected_exception}, r_result.cls)) =>
            /\ failure_count = c.pre_count + 1
            /\ c.out = AsOutcome(r_result)
            /\ c.res = RaiseOf(c.out)

\* A wrapper with max_retries = 3 was exhausted at its fourth attempt inside
\* a call of a breaker that had counted a failure before, and the breaker has
\* counted one more.
C30_Witness ==
    \E t \in Threads :
        /\ cb_pc[t] = "done"
        /\ r_pc = "done"
        /\ max_retries = 3
        /\ Len(hist) = 4
        /\ r_result.cls = "RetryExhaustedError"
        /\ cb_call[t].out.cls = "RetryExhaustedError"
        /\ cb_call[t].pre_count = 1
        /\ failure_count = 2

\* ------------------------------------------------------- claims on set
\* C31: set(key, value, ttl) leaves under key an entry holding value whose
\* expires_at is the time of the call plus ttl when ttl is given and not 0,
\* plus the cache's default ttl otherwise, whether or not key had an entry;
\* every other key has the entry it had, or none as before.
C31_SetPost(key, value, ttl) ==
    /\ key \in DOMAIN c_cache'
    /\ c_cache'[key].value = value
    /\ c_cache'[key].expires_at =
          now + (IF ttl = NoTtl \/ ttl = 0 THEN c_ttl ELSE ttl)
    /\ DOMAIN c_cache' = DOMAIN c_cache \cup {key}
    /\ \A k \in DOMAIN c_cache \ {key} : c_cache'[k] = c_cache[k]
C31_SetStores ==
    [][c_last'.op = "set" =>
          \A value \in Values, ttl \in TtlArgs, d \in {0, 1} :
              CacheSet(c_last'.key, value, ttl, d) =>
                  C31_SetPost(c_last'.key, value, ttl)]_vars

\* A set has replaced the entry of k1 while k2 has an entry; the new entry
\* lives for the default ttl, which is not 0.
C31_Witness ==
    /\ c_last = Last("set", "k1", None, TRUE)
    /\ "k2" \in DOMAIN c_cache
    /\ c_ttl = 2
    /\ c_cache["k1"].expires_at = now + c_ttl
    /\ c_cache["k1"].value = "v2"

\* C32: the entry a set call stores has expires_at = created_at + the ttl the
\* call used (its argument, or the default for None and 0), whether or not
\* the clock advances while the call runs.
C32_SetPost(key, ttl) ==
    c_cache'[key].expires_at =
        c_cache'[key].created_at + (IF ttl = NoTtl \/ ttl = 0 THEN c_ttl ELSE ttl)
C32_ExpiryFromCreation ==
    [][c_last'.op = "set" =>
          \A value \in Values, ttl \in TtlArgs, d \in {0, 1} :
              CacheSet(c_last'.key, value, ttl, d) =>
                  C32_SetPost(c_last'.key, ttl)]_vars

\* What a method leaves in the cache and returns when nothing else runs
\* between its first statement and its last: o.pre are the entries when it
\* began, o.time and o.created the clock as it read it.
C33_Entries(o) ==
    CASE o.name = "get" -> GetEntries(o.pre, o.key, o.time)
      [] o.name = "set" ->
             [k \in DOMAIN o.pre \cup {o.key} |->
                 IF k = o.key THEN Entry(o.value, o.time + o.ttl, o.created)
                 ELSE o.pre[k]]
      [] o.name = "delete" -> [k \in DOMAIN o.pre \ {o.key} |-> o.pre[k]]
      [] o.name = "clear" -> <<>>
      [] o.name = "cleanup_expired" ->
             [k \in {j \in DOMAIN o.pre : ~IsExpired(o.pre[j], o.time)} |-> o.pre[k]]
      [] o.name = "stats" -> o.pre
C33_Ret(o) ==
    CASE o.name = "get" -> GetValue(o.pre, o.key, o.time)
      [] o.name \in {"set", "delete"} -> None
      [] o.name = "clear" -> Cardinality(DOMAIN o.pre)
      [] o.name = "cleanup_expired" ->
             Cardinality({j \in DOMAIN o.pre : IsExpired(o.pre[j], o.time)})
      [] o.name = "stats" -> <<Cardinality(DOMAIN o.pre), c_ttl>>
\* A thread is at a statement of a `with self._lock:` block.
C33_InBlock(t) == k_pc[t] \notin {"idle", "with", "L75"}
C33_Returns(t) ==
    /\ C33_InBlock(t)
    /\ k_pc'[t] = "idle"
C33_Serial(t) ==
    /\ c_cache' = C33_Entries(k_op'[t])
    /\ k_op'[t].ret = C33_Ret(k_op'[t])

\* C33: get, set, delete, clear, cleanup_expired and stats of one cache run
\* their statements on the entries under the instance's one lock, so under
\* any interleaving of threads they behave as if executed one at a time: a
\* thread inside a method's block holds the lock, the entries change only by
\* the statements of the thread holding it, no method raises KeyError because
\* a key went away under it, and when a method returns the entries and its
\* return value are what the method makes of the entries it found when it
\* took the lock (get's expiry check and eviction included).
C33_OneAtATime ==
    /\ [](\A t \in Threads :
              /\ C33_InBlock(t) => k_lock = t
              /\ ~k_op[t].raised)
    /\ [][/\ c_cache' /= c_cache =>
                 \A t \in Threads \ {k_lock} :
                     k_pc'[t] = k_pc[t] /\ k_op'[t] = k_op[t]
          /\ \A t \in Threads : C33_Returns(t) => C33_Serial(t)]_vars
\* t2 is about to evict the expired entry it found while t1 waits for the lock
\* to delete the same key.
C33_Witness ==
    /\ k_lock = "t2" /\ k_pc["t2"] = "L60"
    /\ k_pc["t1"] = "with" /\ k_op["t1"].name = "delete"
    /\ k_op["t1"].key = k_op["t2"].key

\* The calls of the method `name` made so far, and those among them for `key`.
C34_Calls(name) == {i \in 1 .. Len(m_log) : m_log[i].name = name}
C34_CallsFor(name, key) == {i \in C34_Calls(name) : m_log[i].key = key}
C34_Count(d, key) == IF key \in DOMAIN d THEN d[key] ELSE 0
C34_CountOf(d, key) == IF key \in DOMAIN d THEN d[key].count ELSE 0
\* Only the five recording methods have been called, and all calls have
\* returned.
C34_OnlyRecorded ==
    /\ \A t \in Threads : m_pc[t] = "idle"
    /\ C34_Calls("get_metrics") = {} /\ C34_Calls("reset") = {}

\* C34: when threads call increment_request, record_node_execution,
\* record_latency, record_error and record_cache_hit concurrently on one
\* collector, then once all calls have returned every counter equals the
\* number of calls made to it.
C34_NoLostUpdate ==
    C34_OnlyRecorded =>
        /\ m_metrics.requests.total = Cardinality(C34_Calls("increment_request"))
        /\ m_metrics.requests.success + m_metrics.requests.failure =
               Cardinality(C34_Calls("increment_request"))
        /\ m_metrics.cache.hits + m_metrics.cache.misses =
               Cardinality(C34_Calls("record_cache_hit"))
        /\ \A n \in NodeNames :
               C34_CountOf(m_metrics.nodes, n) =
                   Cardinality(C34_CallsFor("record_node_execution", n))
        /\ \A o \in Operations :
               C34_CountOf(m_metrics.latency, o) =
                   Cardinality(C34_CallsFor("record_latency", o))
        /\ \A e \in ErrorTypes :
               C34_Count(m_metrics.errors, e) =
                   Cardinality(C34_CallsFor("record_error", e))
\* Three calls of increment_request by two threads have returned.
C34_Witness ==
    /\ C34_OnlyRecorded
    /\ Cardinality(C34_Calls("increment_request")) = 3
    /\ m_metrics.requests.total = 3

\* The step is reset()'s assignment of a new dictionary (lines 167-173).
C35_ResetStep == \E t \in Threads : m_pc[t] = "L167" /\ m_pc'[t] /= "L167"
\* Every entry of d is in e, with each of the listed fields at least as large.
C35_Grows(d, e, fields) ==
    /\ DOMAIN d \subseteq DOMAIN e
    /\ \A k \in DOMAIN d : \A f \in fields : e[k][f] >= d[k][f]

\* C35: a step other than reset() decreases no counter of the collector
\* (request totals, per-node and per-operation counts and total durations,
\* error counts, cache hits and misses) and removes no per-name or
\* per-category entry.
C35_Monotone ==
    [][~C35_ResetStep =>
          /\ \A f \in {"total", "success", "failure"} :
                 m_metrics'.requests[f] >= m_metrics.requests[f]
          /\ \A f \in {"hits", "misses"} : m_metrics'.cache[f] >= m_metrics.cache[f]
          /\ C35_Grows(m_metrics.nodes, m_metrics'.nodes,
                       {"count", "success", "failure", "total_duration"})
          /\ C35_Grows(m_metrics.latency, m_metrics'.latency, {"count", "total"})
          /\ DOMAIN m_metrics.errors \subseteq DOMAIN m_metrics'.errors
          /\ \A e \in DOMAIN m_metrics.errors :
                 m_metrics'.errors[e] >= m_metrics.errors[e]]_vars

\* ------------------------------------------ claims on the breaker's counting
\* The call of t has ended, was made with the breaker CLOSED, and ...
C36_EndedClosed(t) == cb_pc[t] = "done" /\ cb_call[t].pre_state = "CLOSED"
\* ... its operation raised an expected exception.
C36_Counted(t) ==
    /\ C36_EndedClosed(t)
    /\ IsFailure(cb_call[t].out) /\ IsExpected(cb_call[t].out)

\* C36: a successful call through a CLOSED breaker leaves failure_count,
\* last_failure_time and state as they were; a counted failure through a
\* CLOSED breaker adds one to the count it found, whatever successes came
\* since the earlier failures, and leaves the breaker OPEN exactly when that
\* count has reached failure_threshold.
C36_SuccessKeepsCount ==
    \A t \in Threads :
        /\ (C36_EndedClosed(t) /\ cb_call[t].out.kind = "ok") =>
               /\ state = "CLOSED"
               /\ failure_count = cb_call[t].pre_count
               /\ last_failure_time = cb_call[t].pre_lft
        /\ C36_Counted(t) =>
               /\ failure_count = cb_call[t].pre_count + 1
               /\ (state = "OPEN") = (failure_count >= failure_threshold)
\* A call has succeeded through a CLOSED breaker that had counted one failure
\* of the two that open it.
C36_Witness ==
    /\ failure_threshold = 2 /\ failure_count = 1 /\ state = "CLOSED"
    /\ \E t \in Threads :
          /\ C36_EndedClosed(t) /\ cb_call[t].out.kind = "ok"
          /\ cb_call[t].pre_count = 1

\* C37: in every reachable state of the breaker, while calls and reset() run
\* concurrently, state = CLOSED implies failure_count < failure_threshold
\* (failure_threshold >= 1); stated here for the states between calls only,
\* where no thread is inside call() or reset().
C37_ClosedBelowThreshold ==
    (/\ failure_threshold >= 1
     /\ \A t \in Threads : cb_pc[t] \in {"idle", "done"}
     /\ state = "CLOSED") => failure_count < failure_threshold

\* C38: whenever no call is executing the breaker is CLOSED or OPEN, never
\* HALF_OPEN, whatever the outcome of the trial was (success, expected
\* failure, or an exception that is not an expected one).
C38_HalfOpenOnlyInTrial ==
    (\A t \in Threads : cb_pc[t] \in {"idle", "done"}) =>
        state \in {"CLOSED", "OPEN"}

\* ------------------------------------------------ claims on the breaker's recovery
\* The operation is running, invoked by some call.
C39_Invoked == \E t \in Threads : cb_pc[t] = "func"
\* No invocation of the operation ends with an exception.
C39_Succeeds ==
    \A t \in Threads, out \in CbOutcomes : IsFailure(out) => ~CbFuncEnds(t, out)

\* C39: an OPEN breaker is never stuck. While time keeps advancing and calls
\* keep arriving, an OPEN breaker leads to a call that is admitted and whose
\* operation is invoked; and if from some point on the operation only
\* succeeds, the breaker eventually is CLOSED and stays CLOSED.
C39_NeverStuck ==
    /\ (state = "OPEN") ~> C39_Invoked
    /\ <>[][C39_Succeeds]_vars => <>[](state = "CLOSED")
\* The trial call of an OPEN breaker whose timeout has passed is running.
C39_Witness ==
    /\ state = "HALF_OPEN"
    /\ \E t \in Threads : cb_pc[t] = "func" /\ cb_call[t].inv_state = "HALF_OPEN"
    /\ now = MaxTime /\ last_failure_time < MaxTime - timeout

\* ------------------------------------------------- claims on cached and None
\* What the call of t that ends with this step found under its fingerprint.
C40_Found(t) == w_pre'[t].entry
C40_Unexpired(t) ==
    C40_Found(t) /= NoEntry /\ w_pre'[t].at <= C40_Found(t).expires_at
C40_InvokedNow(t) ==
    /\ Len(w_hist') = w_pre'[t].n + 1
    /\ w_hist'[Len(w_hist')].args = w_args[t]
C40_CallPost(t) ==
    /\ (w_res'[t].kind = "return" /\ w_res'[t].id = None) => C40_InvokedNow(t)
    /\ (C40_Found(t) /= NoEntry /\ C40_Found(t).value = None) => C40_InvokedNow(t)
    /\ (C40_Unexpired(t) /\ C40_Found(t).value /= None) =>
           /\ w_res'[t] = Result("return", None, C40_Found(t).value, 0)
           /\ Len(w_hist') = w_pre'[t].n

\* C40: with caching enabled a None is never served from the cache: a call
\* that returns None has invoked the function itself, a call that finds a
\* stored None under its fingerprint invokes the function again, and a call
\* that finds an unexpired value other than None returns it without invoking
\* the function.
C40_NoneNeverServed ==
    [][\A t \in Threads : EndsCachedCall(t) => C40_CallPost(t)]_vars
\* A call has found an unexpired stored None under its fingerprint and has
\* invoked the function again.
C40_Witness ==
    \E t \in Threads :
        /\ WrapEnded(t) /\ enabled[t]
        /\ w_pre[t].entry /= NoEntry
        /\ w_pre[t].entry.value = None
        /\ w_pre[t].at <= w_pre[t].entry.expires_at
        /\ Len(w_hist) = w_pre[t].n + 1
====
